---- MODULE Spec2Model ----
(***************************************************************************)
(* Model of the marshr Ruby-Marshal codec: Loader (src/src/decode/load.rs), *)
(* Dumper (src/src/encode/dump.rs) and the value store (src/src/values.rs). *)
(* Bytes are integers 0..255, i32 values are integers kept inside the      *)
(* 32-bit range by the operators that compute them.                        *)
(***************************************************************************)
EXTENDS Integers, Sequences, FiniteSets, TLC

VARIABLES
    source,     \* bytes held by the reader handed to Loader::new
    rpos,       \* number of bytes of source the reader has consumed
    loaded,     \* result of the last Loader::load (status, Root, bookkeeping)
    sink,       \* the Vec<u8> behind the Dumper's writer
    dsymbols,   \* Dumper.symbols
    dobjects,   \* Dumper.objects
    lastDump,   \* result of the last Dumper::dump call
    loads,      \* number of load calls made on the reader
    dumps,      \* number of dump calls made on the Dumper
    pc,         \* "run" while the program is alive, "aborted" after a panic
    fxN,        \* fixnum harness: the i32 handed to write_fixnum
    fxBytes,    \* fixnum harness: the bytes write_fixnum produced
    fxOut,      \* fixnum harness: the result of read_fixnum on fxBytes
    fxPc,       \* fixnum harness: "init", "written", "read"
    txOut,      \* text harness: the string handed to decode_string, its result
    txPc,       \* text harness: "idle", "decoded"
    rdIn,       \* reader harness: the Loader before one read_value call
    rdOut,      \* reader harness: the Loader after it, with the call's result
    rdPc        \* reader harness: "ready", "done"

vars == <<source, rpos, loaded, sink, dsymbols, dobjects, lastDump, loads,
          dumps, pc, fxN, fxBytes, fxOut, fxPc, txOut, txPc, rdIn, rdOut,
          rdPc>>

mainVars == <<source, rpos, loaded, sink, dsymbols, dobjects, lastDump,
              loads, dumps, pc>>

fxVars == <<fxN, fxBytes, fxOut, fxPc>>

txVars == <<txOut, txPc>>

rdVars == <<rdIn, rdOut, rdPc>>

----------------------------------------------------------------------------
(* Integer helpers: u8 / i8 / i32 arithmetic as Rust performs it.           *)

I32Max == 2147483647

I32Min == (-I32Max) - 1

MARSHAL_MAJOR_VERSION == 4

MARSHAL_MINOR_VERSION == 8

\* `x as i8` for a u8 x
ToI8(b) == IF b >= 128 THEN b - 256 ELSE b

\* `x as u8` for an i8 x
ToU8(s) == IF s < 0 THEN s + 256 ELSE s

\* u8::wrapping_neg
WrappingNeg(b) == (256 - b) % 256

\* i32::from_le_bytes([b0, b1, b2, b3])
LeToI32(b0, b1, b2, b3) == b0 + 256 * b1 + 65536 * b2 + 16777216 * ToI8(b3)

\* element i (1-based) of a byte sequence, 0 beyond its end (a zeroed buffer)
ByteOr(bytes, i, dflt) == IF i <= Len(bytes) THEN bytes[i] ELSE dflt

\* the element of a one-element set.  The({e : x \in {v}}) is e with v for
\* x: it names the result of a call that the code binds with `let`
The(S) == CHOOSE x \in S : TRUE

----------------------------------------------------------------------------
(* The reader: read_exact on a BufReader over a byte slice.                 *)

\* read_exact(n): all n bytes or an error; a failed read drains the source
ReadExact(src, pos, n) ==
    IF n <= Len(src) - pos
    THEN [ok |-> TRUE, bytes |-> SubSeq(src, pos + 1, pos + n), pos |-> pos + n]
    ELSE [ok |-> FALSE, bytes |-> <<>>, pos |-> Len(src)]

----------------------------------------------------------------------------
(* Loader::read_fixnum                                                      *)

\* the `else` branch: the length byte is itself the value
ReadFixnumSmall(int_len) ==
    LET value == ToI8(int_len)
    IN  IF value > 0 THEN value - 5 ELSE value + 5

\* the multi-byte branch: int_len in 1..4 bytes follow
ReadFixnumLong(bytes, is_positive) ==
    IF is_positive
    THEN LeToI32(ByteOr(bytes, 1, 0), ByteOr(bytes, 2, 0),
                 ByteOr(bytes, 3, 0), ByteOr(bytes, 4, 0))
    ELSE LeToI32(ByteOr(bytes, 1, 255), ByteOr(bytes, 2, 255),
                 ByteOr(bytes, 3, 255), ByteOr(bytes, 4, 255))

\* Loader::read_fixnum; result: [st, n, pos], st is "ok" or "io"
ReadFixnum(src, pos) ==
    The({ IF ~first.ok THEN [st |-> "io", n |-> 0, pos |-> first.pos]
          ELSE IF first.bytes[1] = 0
               THEN [st |-> "ok", n |-> 0, pos |-> first.pos]
          ELSE
            The({ IF int_len > 0 /\ int_len < 5
                  THEN The({ IF ~rest.ok
                             THEN [st |-> "io", n |-> 0, pos |-> rest.pos]
                             ELSE [st |-> "ok",
                                   n |-> ReadFixnumLong(rest.bytes, is_positive),
                                   pos |-> rest.pos]
                             : rest \in {ReadExact(src, first.pos, int_len)} })
                  ELSE [st |-> "ok", n |-> ReadFixnumSmall(int_len),
                        pos |-> first.pos]
                  : is_positive \in {~(ToI8(first.bytes[1]) < 0)},
                    int_len \in {IF ToI8(first.bytes[1]) < 0
                                 THEN WrappingNeg(first.bytes[1])
                                 ELSE first.bytes[1]} })
          : first \in {ReadExact(src, pos, 1)} })

----------------------------------------------------------------------------
(* Dumper::write_fixnum                                                     *)

RECURSIVE WriteFixnumLoopUnsigned(_, _, _)
\* a loop that lacks the `if number == -1` exit: a negative number runs to
\* the fourth byte
WriteFixnumLoopUnsigned(number, i, body) ==
    LET byte == number % 256
        next == number \div 256
        out  == Append(body, byte)
    IN  IF next = 0 THEN <<i>> \o out
        ELSE IF i = 4 THEN <<ToU8(-4)>> \o out
        ELSE WriteFixnumLoopUnsigned(next, i + 1, out)

RECURSIVE WriteFixnumLoop(_, _, _)
\* the `for i in 1..5` loop; body holds output[1..i-1]
WriteFixnumLoop(number, i, body) ==
    LET byte == number % 256
        next == number \div 256          \* `number >>= 8`, arithmetic shift
        out  == Append(body, byte)
    IN  IF next = 0 THEN <<i>> \o out
        ELSE IF next = -1 THEN <<ToU8(-i)>> \o out
        ELSE IF i = 4 THEN <<0>> \o out
        ELSE WriteFixnumLoop(next, i + 1, out)

WriteFixnum(number) ==
    IF number = 0 THEN <<0>>
    ELSE IF number >= 1 /\ number <= 122 THEN <<ToU8(number + 5)>>
    ELSE IF number >= -123 /\ number <= -1 THEN <<ToU8(number - 5)>>
    ELSE WriteFixnumLoop(number, 1, <<>>)

----------------------------------------------------------------------------
(* values.rs: RubyValue and RubyObject.  A RubyValue is [t, v]: the variant *)
(* name and its payload (bool as 0/1, i32, SymbolID or ObjectID).  A        *)
(* RubyObject is a record with one field per payload the variants carry.    *)

Val(t, v) == [t |-> t, v |-> v]

Nil == Val("Nil", 0)

Boolean(b) == Val("Boolean", IF b THEN 1 ELSE 0)

\* the RubyValue variants that carry an ObjectID
ObjectKinds == {"Array", "BigNum", "Class", "Module", "ClassOrModule", "Float",
                "Hash", "HashWithDefault", "Object", "RegExp", "String",
                "Struct", "UserClass", "UserDefined", "UserMarshal"}

\* RubyObject::Empty, and the shape every other variant is built from.  The
\* field `wire` is a history field the program does not have: the key/value
\* pairs of the object's map in the order the loader read them.
Empty == [kind |-> "Empty", items |-> <<>>, pairs |-> <<>>, dflt |-> Nil,
          bytes |-> <<>>, name |-> 0, wrapped |-> Nil, num |-> 0,
          spairs |-> <<>>, hasIvs |-> FALSE,
          float |-> [cls |-> "num", n |-> 0],
          big |-> <<0, 0, 0, 0, 0, 0, 0, 0>>,
          wire |-> <<>>]

ArrayObj(array) == [Empty EXCEPT !.kind = "Array", !.items = array]

HashObj(hash) == [Empty EXCEPT !.kind = "Hash", !.pairs = hash]

\* HashWithDefault::new
HashWithDefaultObj(hash, default) ==
    [Empty EXCEPT !.kind = "HashWithDefault", !.pairs = hash, !.dflt = default]

\* RubyObject::Float; an f64 is [cls, n]: cls is "inf", "-inf", "nan", or
\* "num" for the finite value n (the model keeps integral values only)
FloatObj(float_val) == [Empty EXCEPT !.kind = "Float", !.float = float_val]

\* RubyObject::BigNum; an i64 is its 8 little-endian two's-complement bytes
BigNumObj(value) == [Empty EXCEPT !.kind = "BigNum", !.big = value]

\* Class / Module / ClassOrModule (String name, kept as its UTF-8 bytes)
NameObj(kind, name) == [Empty EXCEPT !.kind = kind, !.bytes = name]

\* RubyString::new: bytes, instance_variables: None
StringObj(string) == [Empty EXCEPT !.kind = "String", !.bytes = string]

\* RegExp::new
RegExpObj(pattern, options) ==
    [Empty EXCEPT !.kind = "RegExp", !.bytes = pattern, !.num = options]

\* Struct::new
StructObj(name, members) ==
    [Empty EXCEPT !.kind = "Struct", !.name = name, !.spairs = members]

\* Object::new
ObjectObj(class_name, instance_variables) ==
    [Empty EXCEPT !.kind = "Object", !.name = class_name,
                  !.spairs = instance_variables]

\* UserClass::new
UserClassObj(name, wrapped_object) ==
    [Empty EXCEPT !.kind = "UserClass", !.name = name, !.wrapped = wrapped_object]

\* UserDefined::new
UserDefinedObj(class_name, data) ==
    [Empty EXCEPT !.kind = "UserDefined", !.name = class_name, !.bytes = data]

\* UserMarshal::new
UserMarshalObj(class_name, wrapped_object) ==
    [Empty EXCEPT !.kind = "UserMarshal", !.name = class_name,
                  !.wrapped = wrapped_object]

\* records the pairs as read from the wire next to the map built from them
WithWire(obj, wire) == [obj EXCEPT !.wire = wire]

\* set_instance_variables of RubyString, RegExp, UserClass, UserDefined
SetInstanceVariables(obj, instance_variables) ==
    [obj EXCEPT !.spairs = instance_variables, !.hasIvs = TRUE]

(* HashMap.  A map is the sequence of its entries [k, v] with distinct keys; *)
(* the sequence order is the map's iteration order.                          *)

MapHas(m, k) == \E i \in 1..Len(m) : m[i].k = k

\* HashMap::insert: a present key keeps its entry and takes the new value
MapInsert(m, k, v) ==
    IF MapHas(m, k)
    THEN [i \in 1..Len(m) |-> IF m[i].k = k THEN [k |-> k, v |-> v] ELSE m[i]]
    ELSE Append(m, [k |-> k, v |-> v])

\* HashMap's PartialEq: the same entries, whatever the iteration order
MapEq(m1, m2) ==
    /\ Len(m1) = Len(m2)
    /\ \A i \in 1..Len(m1) : \E j \in 1..Len(m2) : m1[i] = m2[j]

----------------------------------------------------------------------------
(* Loader.  The loader state is threaded through the read_* operators:      *)
(* status "ok" | "io" (LoadError::IoError) | "parser" (LoadError::          *)
(* ParserError) | "panic" | "unmodelled"; err names the failing site; pos   *)
(* is the reader position; symbols / objects are the Loader's vectors; val, *)
(* id, seq, items and map carry the Ok payload of the last read_* call (a   *)
(* RubyValue, an id, a Vec<u8>, a Vec<RubyValue>, a HashMap); wire is the   *)
(* history of the pairs read for that HashMap.                              *)

\* Loader::new
NewLoader(pos) ==
    [status |-> "ok", err |-> "", pos |-> pos, symbols |-> <<>>,
     objects |-> <<>>, val |-> Nil, id |-> 0, eof |-> FALSE,
     seq |-> <<>>, items |-> <<>>, map |-> <<>>, wire |-> <<>>]

\* `return Err(LoadError::ParserError(..))`, or a panic
Fail(st, status, err, pos) ==
    [st EXCEPT !.status = status, !.err = err, !.pos = pos]

\* `if let Err(err) = self.reader.read_exact(..) { return Err(IoError(..)) }`
\* eof records that the reader ran out of bytes
FailRead(st, err, pos) ==
    [st EXCEPT !.status = "io", !.err = err, !.pos = pos, !.eof = TRUE]

OkVal(st, pos, val) == [st EXCEPT !.pos = pos, !.val = val]

OkId(st, pos, id) == [st EXCEPT !.pos = pos, !.id = id]

\* self.objects.push(obj); Ok(self.objects.len()-1)   (0-based ids)
PushObject(st, pos, obj) ==
    [st EXCEPT !.pos = pos, !.objects = Append(st.objects, obj),
               !.id = Len(st.objects)]

\* a loader that never backfills the placeholder
InstallObjectForgotten(st, id, obj) == [st EXCEPT !.id = id]

\* self.objects[id] = obj
InstallObject(st, id, obj) ==
    [st EXCEPT !.objects = [st.objects EXCEPT ![id + 1] = obj], !.id = id]

\* String::from_utf8: well-formed UTF-8 (RFC 3629 byte ranges)
RECURSIVE Utf8Valid(_)
Utf8Valid(b) ==
    LET n == Len(b)
        Cont(i) == i <= n /\ b[i] >= 128 /\ b[i] <= 191
        In(i, lo, hi) == i <= n /\ b[i] >= lo /\ b[i] <= hi
    IN  IF n = 0 THEN TRUE
        ELSE IF b[1] <= 127 THEN Utf8Valid(SubSeq(b, 2, n))
        ELSE IF b[1] >= 194 /\ b[1] <= 223
             THEN Cont(2) /\ Utf8Valid(SubSeq(b, 3, n))
        ELSE IF b[1] = 224
             THEN In(2, 160, 191) /\ Cont(3) /\ Utf8Valid(SubSeq(b, 4, n))
        ELSE IF b[1] = 237
             THEN In(2, 128, 159) /\ Cont(3) /\ Utf8Valid(SubSeq(b, 4, n))
        ELSE IF b[1] >= 225 /\ b[1] <= 239
             THEN Cont(2) /\ Cont(3) /\ Utf8Valid(SubSeq(b, 4, n))
        ELSE IF b[1] = 240
             THEN In(2, 144, 191) /\ Cont(3) /\ Cont(4)
                  /\ Utf8Valid(SubSeq(b, 5, n))
        ELSE IF b[1] >= 241 /\ b[1] <= 243
             THEN Cont(2) /\ Cont(3) /\ Cont(4) /\ Utf8Valid(SubSeq(b, 5, n))
        ELSE IF b[1] = 244
             THEN In(2, 128, 143) /\ Cont(3) /\ Cont(4)
                  /\ Utf8Valid(SubSeq(b, 5, n))
        ELSE FALSE

\* Loader::read_byte_sequence; the sequence lands in .seq
ReadByteSequence(src, st) ==
    The({ IF f.st = "io" THEN FailRead(st, "fixnum", f.pos)
          ELSE IF f.n < 0
               THEN \* usize::try_from(negative).unwrap()
                    Fail(st, "panic", "byte sequence length", f.pos)
          ELSE The({ IF ~r.ok THEN FailRead(st, "byte sequence", r.pos)
                     ELSE [st EXCEPT !.pos = r.pos, !.seq = r.bytes]
                     : r \in {ReadExact(src, f.pos, f.n)} })
          : f \in {ReadFixnum(src, st.pos)} })

\* Loader::read_sequence
ReadSequence(src, st) ==
    The({ IF r.status # "ok" THEN r
          ELSE IF ~Utf8Valid(r.seq) THEN Fail(r, "parser", "utf8", r.pos)
          ELSE r
          : r \in {ReadByteSequence(src, st)} })

\* a read_symbol that looks the name up and pushes it only when it is new
ReadSymbolInterned(src, st) ==
    The({ IF r.status # "ok" THEN r
          ELSE IF \E i \in 1..Len(r.symbols) : r.symbols[i] = r.seq
               THEN [r EXCEPT !.id = (CHOOSE i \in 1..Len(r.symbols) :
                                          r.symbols[i] = r.seq) - 1]
          ELSE [r EXCEPT !.symbols = Append(r.symbols, r.seq),
                         !.id = Len(r.symbols)]
          : r \in {ReadSequence(src, st)} })

\* Loader::read_symbol; the SymbolID lands in .id
ReadSymbol(src, st) ==
    The({ IF r.status # "ok" THEN r
          ELSE [r EXCEPT !.symbols = Append(r.symbols, r.seq),
                         !.id = Len(r.symbols)]
          : r \in {ReadSequence(src, st)} })

\* read_symbol_link without the `symbol_id >= self.symbols.len()` test
ReadSymbolLinkUnchecked(src, st) ==
    The({ IF f.st = "io" THEN FailRead(st, "fixnum", f.pos)
          ELSE IF f.n < 0 THEN Fail(st, "parser", "symbol link index", f.pos)
          ELSE OkId(st, f.pos, f.n)
          : f \in {ReadFixnum(src, st.pos)} })

\* Loader::read_symbol_link
ReadSymbolLink(src, st) ==
    The({ IF f.st = "io" THEN FailRead(st, "fixnum", f.pos)
          ELSE IF f.n < 0 THEN Fail(st, "parser", "symbol link index", f.pos)
          ELSE IF f.n >= Len(st.symbols)
               THEN Fail(st, "parser", "symbol link target", f.pos)
          ELSE OkId(st, f.pos, f.n)
          : f \in {ReadFixnum(src, st.pos)} })

\* the read_object_link match without its `RubyObject::Empty` arm
LinkValueInitialized(object, object_id) == Val(object.kind, object_id)

\* the match of read_object_link: the RubyValue variant for a stored object
LinkValue(object, object_id) ==
    IF object.kind = "Empty" THEN Val("Uninitialized", object_id)
    ELSE Val(object.kind, object_id)

\* Loader::read_object_link
ReadObjectLink(src, st) ==
    The({ IF f.st = "io" THEN FailRead(st, "fixnum", f.pos)
          ELSE IF f.n < 0 THEN Fail(st, "parser", "object link index", f.pos)
          ELSE IF f.n < Len(st.objects)
               THEN OkVal(st, f.pos, LinkValue(st.objects[f.n + 1], f.n))
          ELSE Fail(st, "parser", "object link target", f.pos)
          : f \in {ReadFixnum(src, st.pos)} })

\* ---- floats.  The model covers the literals "inf", "-inf", "nan" and those
\* made of ASCII digits and of bytes strtod can neither skip nor consume.

IsDigit(b) == b >= 48 /\ b <= 57

\* whitespace, sign, '.', and the letters of exponents, hex and inf/nan forms
StrtodActive == {9, 10, 11, 12, 13, 32, 43, 45, 46, 69, 101, 88, 120, 80, 112,
                 73, 105, 78, 110}

MaxFloatDigits == 3

RECURSIVE DigitRun(_)
\* the leading run of decimal digits of a literal
DigitRun(lit) ==
    IF Len(lit) = 0 \/ ~IsDigit(lit[1]) THEN <<>>
    ELSE <<lit[1]>> \o DigitRun(Tail(lit))

StrtodModelled(lit) ==
    /\ \A i \in 1..Len(lit) : lit[i] \notin StrtodActive
    /\ Len(DigitRun(lit)) <= MaxFloatDigits

RECURSIVE DigitsValue(_)
DigitsValue(d) ==
    IF Len(d) = 0 THEN 0
    ELSE 10 * DigitsValue(SubSeq(d, 1, Len(d) - 1)) + (d[Len(d)] - 48)

\* libc::strtod on a modelled literal: the value of its leading digit run
Strtod(lit) == [cls |-> "num", n |-> DigitsValue(DigitRun(lit))]

\* Loader::read_float
ReadFloat(src, st) ==
    The({ IF r.status # "ok" THEN r
          ELSE IF r.seq = <<105, 110, 102>>
               THEN PushObject(r, r.pos, FloatObj([cls |-> "inf", n |-> 0]))
          ELSE IF r.seq = <<45, 105, 110, 102>>
               THEN PushObject(r, r.pos, FloatObj([cls |-> "-inf", n |-> 0]))
          ELSE IF r.seq = <<110, 97, 110>>
               THEN PushObject(r, r.pos, FloatObj([cls |-> "nan", n |-> 0]))
          ELSE IF ~StrtodModelled(r.seq)
               THEN Fail(r, "unmodelled", "strtod", r.pos)
          ELSE PushObject(r, r.pos, FloatObj(Strtod(r.seq)))
          : r \in {ReadByteSequence(src, st)} })

\* ---- bignums.  An i64 is its 8 little-endian two's-complement bytes.

RECURSIVE Neg64Loop(_, _, _)
\* !x + 1 over bytes i..8, carry in c
Neg64Loop(b, i, c) ==
    IF i > Len(b) THEN <<>>
    ELSE LET t == (255 - b[i]) + c
         IN  <<t % 256>> \o Neg64Loop(b, i + 1, t \div 256)

\* `value *= -1` on an i64 other than i64::MIN
Neg64(b) == Neg64Loop(b, 1, 1)

I64Min == <<0, 0, 0, 0, 0, 0, 0, 128>>

Zero64 == <<0, 0, 0, 0, 0, 0, 0, 0>>

\* an accumulation that takes the first byte as the most significant one
AccumulateBigEndian64(buffer) ==
    [i \in 1..8 |-> IF i <= Len(buffer) THEN buffer[Len(buffer) + 1 - i] ELSE 0]

\* the accumulation loop of read_bignum for at most 8 bytes: byte i lands in
\* byte i of the i64, no carries
Accumulate64(buffer) == [i \in 1..8 |-> ByteOr(buffer, i, 0)]

\* Loader::read_bignum
ReadBignum(src, st) ==
    The({ IF ~s.ok THEN FailRead(st, "bignum sign", s.pos)
          ELSE IF s.bytes[1] # 43 /\ s.bytes[1] # 45
               THEN Fail(st, "parser", "bignum sign", s.pos)
          ELSE
            The({ IF f.st = "io" THEN FailRead(st, "fixnum", f.pos)
                  ELSE IF f.n < 0 THEN Fail(st, "parser", "bignum length", f.pos)
                  ELSE
                    \* length = val * 2 (cannot overflow a 64-bit usize)
                    IF f.n > 4
                    THEN IF (Len(src) - f.pos) \div 2 >= f.n
                         THEN \* more than 8 bytes: `<<` by 64 or more,
                              \* build-dependent
                              Fail(st, "unmodelled", "bignum wider than i64", f.pos)
                         ELSE FailRead(st, "bignum", Len(src))
                    ELSE
                      The({ IF ~r.ok THEN FailRead(st, "bignum", r.pos)
                            ELSE IF ~is_positive /\ Accumulate64(r.bytes) = I64Min
                                 THEN \* i64::MIN * -1 overflows, build-dependent
                                      Fail(st, "unmodelled", "bignum negation", r.pos)
                            ELSE PushObject(st, r.pos,
                                     BigNumObj(IF is_positive
                                               THEN Accumulate64(r.bytes)
                                               ELSE Neg64(Accumulate64(r.bytes))))
                            : r \in {ReadExact(src, f.pos, f.n * 2)} })
                  : is_positive \in {s.bytes[1] = 43},
                    f \in {ReadFixnum(src, s.pos)} })
          : s \in {ReadExact(src, st.pos, 1)} })

\* Loader::read_class, read_module, read_class_or_module
ReadName(src, st, kind) ==
    The({ IF r.status # "ok" THEN r
          ELSE PushObject(r, r.pos, NameObj(kind, r.seq))
          : r \in {ReadSequence(src, st)} })

\* Loader::read_string
ReadString(src, st) ==
    The({ IF r.status # "ok" THEN r
          ELSE PushObject(r, r.pos, StringObj(r.seq))
          : r \in {ReadByteSequence(src, st)} })

\* Loader::read_regexp
ReadRegexp(src, st) ==
    The({ IF r.status # "ok" THEN r
          ELSE The({ IF ~o.ok THEN FailRead(r, "regexp options", o.pos)
                     ELSE PushObject(r, o.pos,
                                     RegExpObj(r.seq, ToI8(o.bytes[1])))
                     : o \in {ReadExact(src, r.pos, 1)} })
          : r \in {ReadSequence(src, st)} })

\* ---- the recursive descent

RECURSIVE ReadValue(_, _)

RECURSIVE ReadArrayLoop(_, _, _, _)
\* `for _ in 0..array_len { array.push(self.read_value()?) }`
ReadArrayLoop(src, st, n, array) ==
    IF n = 0 THEN [st EXCEPT !.items = array]
    ELSE The({ IF r.status # "ok" THEN r
               ELSE ReadArrayLoop(src, r, n - 1, Append(array, r.val))
               : r \in {ReadValue(src, st)} })

\* a read_array that pushes the array once its elements are read
ReadArrayPushedLast(src, st) ==
    The({ IF f.st = "io" THEN FailRead(st, "fixnum", f.pos)
          ELSE IF f.n < 0 THEN Fail(st, "parser", "array length", f.pos)
          ELSE The({ IF r.status # "ok" THEN r
                     ELSE PushObject(r, r.pos, ArrayObj(r.items))
                     : r \in {ReadArrayLoop(src, [st EXCEPT !.pos = f.pos],
                                            f.n, <<>>)} })
          : f \in {ReadFixnum(src, st.pos)} })

\* Loader::read_array
ReadArray(src, st) ==
    The({ IF f.st = "io" THEN FailRead(st, "fixnum", f.pos)
          ELSE IF f.n < 0 THEN Fail(st, "parser", "array length", f.pos)
          ELSE The({ IF r.status # "ok" THEN r
                     ELSE InstallObject(r, array_id, ArrayObj(r.items))
                     : array_id \in {Len(st.objects)},
                       r \in {ReadArrayLoop(src, PushObject(st, f.pos, Empty),
                                            f.n, <<>>)} })
          : f \in {ReadFixnum(src, st.pos)} })

RECURSIVE ReadValuePairsLoop(_, _, _, _, _)
\* `for _ in 0..num_of_pairs { ...; pairs.insert(key, value) }`
ReadValuePairsLoop(src, st, n, pairs, wire) ==
    IF n = 0 THEN [st EXCEPT !.map = pairs, !.wire = wire]
    ELSE The({ IF key.status # "ok" THEN key
               ELSE The({ IF value.status # "ok" THEN value
                          ELSE ReadValuePairsLoop(src, value, n - 1,
                                   MapInsert(pairs, key.val, value.val),
                                   Append(wire, [k |-> key.val, v |-> value.val]))
                          : value \in {ReadValue(src, key)} })
               : key \in {ReadValue(src, st)} })

\* Loader::read_value_pairs; the map lands in .map
ReadValuePairs(src, st) ==
    The({ IF f.st = "io" THEN FailRead(st, "fixnum", f.pos)
          ELSE IF f.n < 0 THEN Fail(st, "parser", "number of pairs", f.pos)
          ELSE ReadValuePairsLoop(src, [st EXCEPT !.pos = f.pos], f.n,
                                  <<>>, <<>>)
          : f \in {ReadFixnum(src, st.pos)} })

RECURSIVE ReadValuePairsSymbolKeysLoop(_, _, _, _, _)
\* the loop of read_value_pairs_symbol_keys
ReadValuePairsSymbolKeysLoop(src, st, n, pairs, wire) ==
    IF n = 0 THEN [st EXCEPT !.map = pairs, !.wire = wire]
    ELSE The({ IF key.status # "ok" THEN key
               ELSE IF key.val.t # "Symbol"
                    THEN Fail(key, "parser", "key not a symbol", key.pos)
               ELSE The({ IF value.status # "ok" THEN value
                          ELSE ReadValuePairsSymbolKeysLoop(src, value, n - 1,
                                   MapInsert(pairs, key.val.v, value.val),
                                   Append(wire,
                                          [k |-> key.val.v, v |-> value.val]))
                          : value \in {ReadValue(src, key)} })
               : key \in {ReadValue(src, st)} })

\* Loader::read_value_pairs_symbol_keys; the map lands in .map
ReadValuePairsSymbolKeys(src, st) ==
    The({ IF f.st = "io" THEN FailRead(st, "fixnum", f.pos)
          ELSE IF f.n < 0 THEN Fail(st, "parser", "number of pairs", f.pos)
          ELSE ReadValuePairsSymbolKeysLoop(src, [st EXCEPT !.pos = f.pos],
                                            f.n, <<>>, <<>>)
          : f \in {ReadFixnum(src, st.pos)} })

\* Loader::read_hash
ReadHash(src, st) ==
    The({ IF hash.status # "ok" THEN hash
          ELSE InstallObject(hash, hash_id,
                             WithWire(HashObj(hash.map), hash.wire))
          : hash_id \in {Len(st.objects)},
            hash \in {ReadValuePairs(src, PushObject(st, st.pos, Empty))} })

\* Loader::read_hash_with_default
ReadHashWithDefault(src, st) ==
    The({ IF hash.status # "ok" THEN hash
          ELSE The({ IF default.status # "ok" THEN default
                     ELSE InstallObject(default, hash_id,
                              WithWire(HashWithDefaultObj(hash.map, default.val),
                                       hash.wire))
                     : default \in {ReadValue(src, hash)} })
          : hash_id \in {Len(st.objects)},
            hash \in {ReadValuePairs(src, PushObject(st, st.pos, Empty))} })

\* the `match self.read_value()? { RubyValue::Symbol(id) => id, ... }` that
\* opens read_struct, read_object, read_user_class, read_user_defined and
\* read_user_marshal; the SymbolID lands in .id
ReadNameSymbol(src, st) ==
    The({ IF name.status # "ok" THEN name
          ELSE IF name.val.t # "Symbol"
               THEN Fail(name, "parser", "name not a symbol", name.pos)
          ELSE OkId(name, name.pos, name.val.v)
          : name \in {ReadValue(src, st)} })

\* Loader::read_struct
ReadStruct(src, st) ==
    The({ IF name.status # "ok" THEN name
          ELSE The({ IF struct_members.status # "ok" THEN struct_members
                     ELSE InstallObject(struct_members, struct_id,
                              WithWire(StructObj(name.id, struct_members.map),
                                       struct_members.wire))
                     : struct_members \in {ReadValuePairsSymbolKeys(src, name)} })
          : struct_id \in {Len(st.objects)},
            name \in {ReadNameSymbol(src, PushObject(st, st.pos, Empty))} })

\* Loader::read_object
ReadObject(src, st) ==
    The({ IF class_name.status # "ok" THEN class_name
          ELSE The({ IF instance_variables.status # "ok"
                     THEN instance_variables
                     ELSE InstallObject(instance_variables, object_id,
                              WithWire(ObjectObj(class_name.id,
                                                 instance_variables.map),
                                       instance_variables.wire))
                     : instance_variables \in
                           {ReadValuePairsSymbolKeys(src, class_name)} })
          : object_id \in {Len(st.objects)},
            class_name \in {ReadNameSymbol(src, PushObject(st, st.pos, Empty))} })

\* Loader::read_user_class
ReadUserClass(src, st) ==
    The({ IF name.status # "ok" THEN name
          ELSE The({ IF wrapped_object.status # "ok" THEN wrapped_object
                     ELSE InstallObject(wrapped_object, user_class_id,
                              UserClassObj(name.id, wrapped_object.val))
                     : wrapped_object \in {ReadValue(src, name)} })
          : user_class_id \in {Len(st.objects)},
            name \in {ReadNameSymbol(src, PushObject(st, st.pos, Empty))} })

\* Loader::read_user_defined
ReadUserDefined(src, st) ==
    The({ IF class_name.status # "ok" THEN class_name
          ELSE The({ IF data.status # "ok" THEN data
                     ELSE InstallObject(data, user_defined_id,
                              UserDefinedObj(class_name.id, data.seq))
                     : data \in {ReadByteSequence(src, class_name)} })
          : user_defined_id \in {Len(st.objects)},
            class_name \in {ReadNameSymbol(src, PushObject(st, st.pos, Empty))} })

\* Loader::read_user_marshal
ReadUserMarshal(src, st) ==
    The({ IF class_name.status # "ok" THEN class_name
          ELSE The({ IF wrapped_object.status # "ok" THEN wrapped_object
                     ELSE InstallObject(wrapped_object, user_marshal_id,
                              UserMarshalObj(class_name.id, wrapped_object.val))
                     : wrapped_object \in {ReadValue(src, class_name)} })
          : user_marshal_id \in {Len(st.objects)},
            class_name \in {ReadNameSymbol(src, PushObject(st, st.pos, Empty))} })

\* the value kinds the match of read_value_with_instance_variables accepts
IvarKinds == {"String", "RegExp", "UserClass", "UserDefined"}

\* Loader::read_value_with_instance_variables
ReadValueWithInstanceVariables(src, st) ==
    The({ IF value.status # "ok" THEN value
          ELSE
            The({ IF instance_variables.status # "ok" THEN instance_variables
                  ELSE IF value.val.t \notin IvarKinds
                       THEN Fail(instance_variables, "parser",
                                 "no instance variables", instance_variables.pos)
                  ELSE
                    The({ IF object.kind # value.val.t
                          THEN Fail(instance_variables, "panic",
                                    "Got wrong object type",
                                    instance_variables.pos)
                          ELSE [instance_variables EXCEPT
                                  !.objects[value.val.v + 1] =
                                      WithWire(SetInstanceVariables(object,
                                                   instance_variables.map),
                                               instance_variables.wire),
                                  !.val = value.val]
                          : object \in
                              {instance_variables.objects[value.val.v + 1]} })
                  : instance_variables \in
                        {ReadValuePairsSymbolKeys(src, value)} })
          : value \in {ReadValue(src, st)} })

\* Ok(RubyValue::Variant(id)) around the Result<ObjectID> of a read_* call
Wrap(r, t) == IF r.status = "ok" THEN [r EXCEPT !.val = Val(t, r.id)] ELSE r

\* the `match buffer[0]` of read_value; s is the loader behind the tag byte
ReadValueTag(src, s, tag) ==
    CASE tag = 48  -> OkVal(s, s.pos, Nil)                       \* '0'
      [] tag = 84  -> OkVal(s, s.pos, Boolean(TRUE))             \* 'T'
      [] tag = 70  -> OkVal(s, s.pos, Boolean(FALSE))            \* 'F'
      [] tag = 105 ->                                            \* 'i'
           The({ IF f.st = "io" THEN FailRead(s, "fixnum", f.pos)
                 ELSE OkVal(s, f.pos, Val("FixNum", f.n))
                 : f \in {ReadFixnum(src, s.pos)} })
      [] tag = 58  -> Wrap(ReadSymbol(src, s), "Symbol")         \* ':'
      [] tag = 59  -> Wrap(ReadSymbolLink(src, s), "Symbol")     \* ';'
      [] tag = 91  -> Wrap(ReadArray(src, s), "Array")           \* '['
      [] tag = 102 -> Wrap(ReadFloat(src, s), "Float")           \* 'f'
      [] tag = 64  -> ReadObjectLink(src, s)                     \* '@'
      [] tag = 123 -> Wrap(ReadHash(src, s), "Hash")             \* '{'
      [] tag = 125 -> Wrap(ReadHashWithDefault(src, s), "HashWithDefault")
      [] tag = 99  -> Wrap(ReadName(src, s, "Class"), "Class")   \* 'c'
      [] tag = 109 -> Wrap(ReadName(src, s, "Module"), "Module") \* 'm'
      [] tag = 77  -> Wrap(ReadName(src, s, "ClassOrModule"), "ClassOrModule")
      [] tag = 34  -> Wrap(ReadString(src, s), "String")         \* '"'
      [] tag = 73  -> ReadValueWithInstanceVariables(src, s)     \* 'I'
      [] tag = 108 -> Wrap(ReadBignum(src, s), "BigNum")         \* 'l'
      [] tag = 47  -> Wrap(ReadRegexp(src, s), "RegExp")         \* '/'
      [] tag = 83  -> Wrap(ReadStruct(src, s), "Struct")         \* 'S'
      [] tag = 111 -> Wrap(ReadObject(src, s), "Object")         \* 'o'
      [] tag = 67  -> Wrap(ReadUserClass(src, s), "UserClass")   \* 'C'
      [] tag = 117 -> Wrap(ReadUserDefined(src, s), "UserDefined")
      [] tag = 85  -> Wrap(ReadUserMarshal(src, s), "UserMarshal")
      [] tag = 100 -> Fail(s, "parser", "Data objects", s.pos)   \* 'd'
      [] OTHER     -> Fail(s, "parser", "Unknown value type", s.pos)

\* Loader::read_value
ReadValue(src, st) ==
    The({ IF ~t.ok THEN FailRead(st, "value type", t.pos)
          ELSE ReadValueTag(src, [st EXCEPT !.pos = t.pos], t.bytes[1])
          : t \in {ReadExact(src, st.pos, 1)} })

\* a version test that accepts 4.8 only
VersionExact(major, minor) ==
    major = MARSHAL_MAJOR_VERSION /\ minor = MARSHAL_MINOR_VERSION

\* the version test of Loader::load
VersionSupported(major, minor) ==
    ~(major > MARSHAL_MAJOR_VERSION \/ minor > MARSHAL_MINOR_VERSION)

\* a load that reads one byte past the value when the reader has one
LoadPeeking(src, pos) ==
    The({ IF ~buffer.ok
          THEN FailRead(NewLoader(pos), "Marshal version", buffer.pos)
          ELSE IF ~VersionSupported(buffer.bytes[1], buffer.bytes[2])
               THEN Fail(NewLoader(pos), "parser", "Unsupported Marshal version",
                         buffer.pos)
          ELSE The({ IF value.status = "ok" /\ value.pos < Len(src)
                     THEN [value EXCEPT !.pos = value.pos + 1]
                     ELSE value
                     : value \in {ReadValue(src, [NewLoader(pos) EXCEPT
                                                    !.pos = buffer.pos])} })
          : buffer \in {ReadExact(src, pos, 2)} })

\* Loader::load on a fresh Loader whose reader stands at pos; on success val
\* is the root RubyValue and symbols / objects are the Root's vectors
Load(src, pos) ==
    The({ IF ~buffer.ok
          THEN FailRead(NewLoader(pos), "Marshal version", buffer.pos)
          ELSE IF ~VersionSupported(buffer.bytes[1], buffer.bytes[2])
               THEN Fail(NewLoader(pos), "parser", "Unsupported Marshal version",
                         buffer.pos)
          ELSE ReadValue(src, [NewLoader(pos) EXCEPT !.pos = buffer.pos])
          : buffer \in {ReadExact(src, pos, 2)} })

----------------------------------------------------------------------------
(* Root (values.rs) and the Dumper (dump.rs).  The dumper state: status     *)
(* "ok" | "io" | "encoder" | "panic" | "unmodelled", out = the bytes handed *)
(* to the writer, symbols / objects = the "already written" flags.          *)

\* Root::new
NewRoot(root, symbols, objects) ==
    [root |-> root, symbols |-> symbols, objects |-> objects]

\* a reset that resizes the flag vectors but keeps the flags already set
ResetKeepingFlags(ds, number_of_symbols, number_of_objects) ==
    [ds EXCEPT !.symbols = [i \in 1..number_of_symbols |->
                              i <= Len(ds.symbols) /\ ds.symbols[i]],
               !.objects = [i \in 1..(number_of_objects + 1) |->
                              i <= Len(ds.objects) /\ ds.objects[i]]]

\* Dumper::reset
Reset(ds, number_of_symbols, number_of_objects) ==
    [ds EXCEPT !.symbols = [i \in 1..number_of_symbols |-> FALSE],
               !.objects = [i \in 1..(number_of_objects + 1) |-> FALSE]]

\* Dumper::write on a Vec<u8> sink: write_all appends and cannot fail; behind
\* a `?` that returned an error nothing more is written
Write(ds, data) ==
    IF ds.status # "ok" THEN ds ELSE [ds EXCEPT !.out = ds.out \o data]

DFail(ds, status, err) == [ds EXCEPT !.status = status, !.err = err]

\* Dumper::write_byte_sequence (a length always fits an i32 here)
WriteByteSequence(ds, sequence) ==
    Write(Write(ds, WriteFixnum(Len(sequence))), sequence)

\* history: the dumper's field log, which the program does not have, lists
\* in order the forms written during the current dump call: "full" or
\* "link", of a "symbol" or an "object", with the ID
Logged(ds, form, table, id) ==
    [ds EXCEPT !.log = Append(@, [form |-> form, table |-> table, id |-> id])]

\* Dumper::write_object_link
WriteObjectLink(ds, object_id) ==
    Write(Write(Logged(ds, "link", "object", object_id), <<64>>),
          WriteFixnum(object_id))

\* self.symbols[symbol_id] = true, in the branch that writes the symbol
MarkSymbol(ds, symbol_id) ==
    Logged([ds EXCEPT !.symbols[symbol_id + 1] = TRUE],
           "full", "symbol", symbol_id)

\* self.objects[object_id] = true, in the branch that writes the object
MarkObject(ds, object_id) ==
    Logged([ds EXCEPT !.objects[object_id + 1] = TRUE],
           "full", "object", object_id)

\* a write_symbol that never looks at the flag
WriteSymbolAlwaysFull(root, ds, symbol_id) ==
    IF ds.status # "ok" THEN ds
    ELSE IF symbol_id >= Len(ds.symbols) THEN DFail(ds, "panic", "symbol index")
    ELSE WriteByteSequence(Write(MarkSymbol(ds, symbol_id), <<58>>),
                           root.symbols[symbol_id + 1])

\* Dumper::write_symbol
WriteSymbol(root, ds, symbol_id) ==
    IF ds.status # "ok" THEN ds
    ELSE IF symbol_id >= Len(ds.symbols) THEN DFail(ds, "panic", "symbol index")
    ELSE IF ds.symbols[symbol_id + 1]
         THEN Write(Write(Logged(ds, "link", "symbol", symbol_id), <<59>>),
                    WriteFixnum(symbol_id))
    ELSE WriteByteSequence(Write(MarkSymbol(ds, symbol_id), <<58>>),
                           root.symbols[symbol_id + 1])

RECURSIVE DecimalDigits(_)
DecimalDigits(n) ==
    IF n < 10 THEN <<48 + n>> ELSE DecimalDigits(n \div 10) \o <<48 + (n % 10)>>

\* f64::to_string (Display) for the modelled floats
FloatToString(float) ==
    CASE float.cls = "inf"  -> <<105, 110, 102>>
      [] float.cls = "-inf" -> <<45, 105, 110, 102>>
      [] float.cls = "nan"  -> <<78, 97, 78>>
      [] OTHER              -> DecimalDigits(float.n)

\* the body of write_float once the tag is written
WriteFloatBody(ds, float) ==
    IF float.cls = "nan" THEN WriteByteSequence(ds, <<110, 97, 110>>)
    ELSE WriteByteSequence(ds, FloatToString(float))

\* i64::is_positive
IsPositive64(b) == b[8] < 128 /\ b # Zero64

\* i64::abs for a value other than i64::MIN
Abs64(b) == IF b[8] >= 128 THEN Neg64(b) ELSE b

RECURSIVE FirstNonZeroByte(_, _)
\* `while bignum_bytes[first_non_zero_byte] == 0 { first_non_zero_byte += 1 }`
\* as a 0-based index; 8 stands for the index that is out of bounds
FirstNonZeroByte(bytes, i) ==
    IF i >= 8 THEN 8
    ELSE IF bytes[i + 1] = 0 THEN FirstNonZeroByte(bytes, i + 1) ELSE i

\* the body of write_bignum once the flag is set
WriteBignumBody(ds, value) ==
    IF value = I64Min
    THEN \* i64::MIN.abs() overflows, build-dependent
         DFail(Write(ds, <<108, 45>>), "unmodelled", "bignum abs")
    ELSE
      The({ IF scan = 8 THEN DFail(signed, "panic", "index out of bounds")
            ELSE The({ Write(Write(signed,
                                   WriteFixnum((8 - first_non_zero_byte) \div 2)),
                             SubSeq(bignum_bytes, first_non_zero_byte + 1, 8))
                       : first_non_zero_byte \in
                             {IF scan % 2 = 1 THEN scan - 1 ELSE scan} })
            : signed \in {Write(Write(ds, <<108>>),
                                IF IsPositive64(value) THEN <<43>> ELSE <<45>>)},
              bignum_bytes \in {Abs64(value)},
              scan \in {FirstNonZeroByte(Abs64(value), 0)} })

RECURSIVE DumpValue(_, _, _)

RECURSIVE WriteArrayLoop(_, _, _, _)
\* `for value in array { self.dump_value(root, value)? }`
WriteArrayLoop(root, ds, array, i) ==
    IF i > Len(array) \/ ds.status # "ok" THEN ds
    ELSE WriteArrayLoop(root, DumpValue(root, ds, array[i]), array, i + 1)

RECURSIVE WriteValuePairsLoop(_, _, _, _)
\* `for (key, value) in value_pairs { dump_value(key)?; dump_value(value)? }`
WriteValuePairsLoop(root, ds, value_pairs, i) ==
    IF i > Len(value_pairs) \/ ds.status # "ok" THEN ds
    ELSE WriteValuePairsLoop(root,
             DumpValue(root, DumpValue(root, ds, value_pairs[i].k),
                       value_pairs[i].v),
             value_pairs, i + 1)

\* Dumper::write_value_pairs
WriteValuePairs(root, ds, value_pairs) ==
    WriteValuePairsLoop(root, Write(ds, WriteFixnum(Len(value_pairs))),
                        value_pairs, 1)

RECURSIVE WriteValuePairsWithSymbolKeysLoop(_, _, _, _)
\* `for (key, value) in value_pairs { write_symbol(key)?; dump_value(value)? }`
WriteValuePairsWithSymbolKeysLoop(root, ds, value_pairs, i) ==
    IF i > Len(value_pairs) \/ ds.status # "ok" THEN ds
    ELSE WriteValuePairsWithSymbolKeysLoop(root,
             DumpValue(root, WriteSymbol(root, ds, value_pairs[i].k),
                       value_pairs[i].v),
             value_pairs, i + 1)

\* Dumper::write_value_pairs_with_symbol_keys
WriteValuePairsWithSymbolKeys(root, ds, value_pairs) ==
    WriteValuePairsWithSymbolKeysLoop(root,
        Write(ds, WriteFixnum(Len(value_pairs))), value_pairs, 1)

\* the instance variables that close write_string, write_regexp,
\* write_user_class and write_user_defined
WriteOptionalIvars(root, ds, object) ==
    IF ds.status # "ok" \/ ~object.hasIvs THEN ds
    ELSE WriteValuePairsWithSymbolKeys(root, ds, object.spairs)

\* the `I` that opens them
WriteIvarPrefix(ds, object) == IF object.hasIvs THEN Write(ds, <<73>>) ELSE ds

\* the `else` branch of each write_<kind>: the object in full form
WriteFull(root, ds, kind, object_id) ==
    LET object == root.objects[object_id + 1]
        marked == MarkObject(ds, object_id)
    IN  IF object.kind # kind
        THEN \* root.get_object(id).unwrap().as_<kind>() on another variant
             DFail(marked, "panic", "as_<kind> on another variant")
        ELSE
        CASE kind = "Array" ->
               WriteArrayLoop(root,
                   Write(Write(marked, <<91>>), WriteFixnum(Len(object.items))),
                   object.items, 1)
          [] kind = "Float" -> WriteFloatBody(Write(marked, <<102>>), object.float)
          [] kind = "Hash" ->
               WriteValuePairs(root, Write(marked, <<123>>), object.pairs)
          [] kind = "HashWithDefault" ->
               DumpValue(root,
                   WriteValuePairs(root, Write(marked, <<125>>), object.pairs),
                   object.dflt)
          [] kind = "Class" -> WriteByteSequence(Write(marked, <<99>>), object.bytes)
          [] kind = "Module" ->
               WriteByteSequence(Write(marked, <<109>>), object.bytes)
          [] kind = "ClassOrModule" ->
               WriteByteSequence(Write(marked, <<77>>), object.bytes)
          [] kind = "String" ->
               WriteOptionalIvars(root,
                   WriteByteSequence(Write(WriteIvarPrefix(marked, object), <<34>>),
                                     object.bytes),
                   object)
          [] kind = "BigNum" -> WriteBignumBody(marked, object.big)
          [] kind = "RegExp" ->
               WriteOptionalIvars(root,
                   Write(WriteByteSequence(
                             Write(WriteIvarPrefix(marked, object), <<47>>),
                             object.bytes),
                         <<ToU8(object.num)>>),
                   object)
          [] kind = "Struct" ->
               WriteValuePairsWithSymbolKeys(root,
                   WriteSymbol(root, Write(marked, <<83>>), object.name),
                   object.spairs)
          [] kind = "Object" ->
               WriteValuePairsWithSymbolKeys(root,
                   WriteSymbol(root, Write(marked, <<111>>), object.name),
                   object.spairs)
          [] kind = "UserClass" ->
               WriteOptionalIvars(root,
                   DumpValue(root,
                       WriteSymbol(root,
                           Write(WriteIvarPrefix(marked, object), <<67>>),
                           object.name),
                       object.wrapped),
                   object)
          [] kind = "UserDefined" ->
               WriteOptionalIvars(root,
                   WriteByteSequence(
                       WriteSymbol(root,
                           Write(WriteIvarPrefix(marked, object), <<117>>),
                           object.name),
                       object.bytes),
                   object)
          [] kind = "UserMarshal" ->
               DumpValue(root,
                   WriteSymbol(root, Write(marked, <<85>>), object.name),
                   object.wrapped)

\* Dumper::write_array, write_float, ... write_user_marshal: a link when the
\* object's flag is set, the full form otherwise
WriteObject(root, ds, kind, object_id) ==
    IF object_id >= Len(ds.objects) THEN DFail(ds, "panic", "object index")
    ELSE IF ds.objects[object_id + 1] THEN WriteObjectLink(ds, object_id)
    ELSE IF object_id >= Len(root.objects)
         THEN DFail(ds, "panic", "get_object(..).unwrap()")
    ELSE WriteFull(root, ds, kind, object_id)

\* Dumper::dump_value
DumpValue(root, ds, object) ==
    IF ds.status # "ok" THEN ds
    ELSE
    CASE object.t = "Uninitialized" ->
           DFail(ds, "panic", "Tried to dump uninitialized object")
      [] object.t = "Nil" -> Write(ds, <<48>>)
      [] object.t = "Boolean" ->
           IF object.v = 1 THEN Write(ds, <<84>>) ELSE Write(ds, <<70>>)
      [] object.t = "FixNum" -> Write(Write(ds, <<105>>), WriteFixnum(object.v))
      [] object.t = "Symbol" -> WriteSymbol(root, ds, object.v)
      [] OTHER -> WriteObject(root, ds, object.t, object.v)

\* Dumper::new
NewDumper == [status |-> "ok", err |-> "", out |-> <<>>, symbols |-> <<>>,
              objects |-> <<>>, log |-> <<>>]

\* Dumper::dump: the state of a dumper ds after the call (flush on a Vec is
\* a no-op)
Dump(ds, root, object) ==
    LET fresh == Reset([ds EXCEPT !.status = "ok", !.err = "", !.log = <<>>],
                       Len(root.symbols), Len(root.objects))
    IN  DumpValue(root,
                  Write(fresh, <<MARSHAL_MAJOR_VERSION, MARSHAL_MINOR_VERSION>>),
                  object)

----------------------------------------------------------------------------
(* HashMap iteration order.  The order in which a HashMap yields its        *)
(* entries is fixed for the life of the map but is not the insertion order: *)
(* every permutation of the entries is a possible order.                    *)

RECURSIVE Factorial(_)
Factorial(n) == IF n <= 1 THEN 1 ELSE n * Factorial(n - 1)

RECURSIVE KthPerm(_, _)
\* the k-th permutation of s (k = 0 is s itself; k ranges over 0..n!-1)
KthPerm(s, k) ==
    IF Len(s) <= 1 THEN s
    ELSE LET n == Len(s)
             i == (k % n) + 1
             rest == [j \in 1..(n - 1) |-> IF j < i THEN s[j] ELSE s[j + 1]]
         IN  <<s[i]>> \o KthPerm(rest, k \div n)

MaxOf(S) == CHOOSE x \in S : \A y \in S : y <= x

\* the number of iteration orders of the largest map among the objects
OrderChoices(objects) ==
    Factorial(MaxOf({0} \cup {Len(objects[i].pairs) : i \in 1..Len(objects)}
                        \cup {Len(objects[i].spairs) : i \in 1..Len(objects)}))

\* the objects with every map iterating in its k-th order
WithIterationOrder(objects, k) ==
    [i \in 1..Len(objects) |->
        [objects[i] EXCEPT !.pairs = KthPerm(@, k), !.spairs = KthPerm(@, k)]]

----------------------------------------------------------------------------
(* The values of a Root's graph.                                            *)

SeqRange(s) == {s[i] : i \in 1..Len(s)}

\* the RubyValues stored inside one object
ObjectValues(object) ==
    SeqRange(object.items)
      \cup {p.k : p \in SeqRange(object.pairs)}
      \cup {p.v : p \in SeqRange(object.pairs)}
      \cup {p.v : p \in SeqRange(object.spairs)}
      \cup (IF object.kind = "HashWithDefault" THEN {object.dflt} ELSE {})
      \cup (IF object.kind \in {"UserClass", "UserMarshal"}
            THEN {object.wrapped} ELSE {})

\* the root value and every value stored in an object of the Root
GraphValues(root) ==
    {root.root} \cup UNION {ObjectValues(root.objects[i]) :
                            i \in 1..Len(root.objects)}

\* the SymbolIDs held by one object outside its RubyValues
ObjectSymbolIds(object) ==
    {p.k : p \in SeqRange(object.spairs)}
      \cup (IF object.kind \in {"Struct", "Object", "UserClass", "UserDefined",
                               "UserMarshal"}
            THEN {object.name} ELSE {})

----------------------------------------------------------------------------
(* The text adapter of Root (values.rs): decode_string.  A result is        *)
(* [st, enc, text]: st "ok" (Ok(String), text as code points, enc the       *)
(* encoding that produced it, "" for the empty-string shortcut),            *)
(* "encoding" (Err(RubyError::EncodingError)), "panic", "overflow" (the     *)
(* recursion never returns and the stack overflows).                        *)

TextOk(enc, text) == [st |-> "ok", enc |-> enc, text |-> text]

TextErr(st, enc) == [st |-> st, enc |-> enc, text |-> <<>>]

RECURSIVE GetSymbolIdFrom(_, _, _)
\* the loop of Root::get_symbol_id from index i on; -1 stands for None
GetSymbolIdFrom(root, symbol, i) ==
    IF i >= Len(root.symbols) THEN -1
    ELSE IF root.symbols[i + 1] = symbol THEN i
    ELSE GetSymbolIdFrom(root, symbol, i + 1)

\* Root::get_symbol_id: the first symbol with that name
GetSymbolId(root, symbol) == GetSymbolIdFrom(root, symbol, 0)

\* HashMap::get for a key the map holds
MapGet(m, k) == m[CHOOSE i \in 1..Len(m) : m[i].k = k].v

RECURSIVE Utf8Decode(_)
\* the code points of well-formed UTF-8
Utf8Decode(b) ==
    IF b = <<>> THEN <<>>
    ELSE IF b[1] <= 127 THEN <<b[1]>> \o Utf8Decode(SubSeq(b, 2, Len(b)))
    ELSE IF b[1] <= 223
         THEN <<(b[1] % 32) * 64 + (b[2] % 64)>>
                \o Utf8Decode(SubSeq(b, 3, Len(b)))
    ELSE IF b[1] <= 239
         THEN <<(b[1] % 16) * 4096 + (b[2] % 64) * 64 + (b[3] % 64)>>
                \o Utf8Decode(SubSeq(b, 4, Len(b)))
    ELSE <<(b[1] % 8) * 262144 + (b[2] % 64) * 4096 + (b[3] % 64) * 64
             + (b[4] % 64)>>
           \o Utf8Decode(SubSeq(b, 5, Len(b)))

\* encoding.decode(bytes, DecoderTrap::Strict).unwrap() for UTF_8 and ASCII
StrictDecode(enc, bytes) ==
    IF enc = "utf-8"
    THEN IF Utf8Valid(bytes) THEN TextOk(enc, Utf8Decode(bytes))
         ELSE TextErr("panic", enc)
    ELSE IF \A i \in 1..Len(bytes) : bytes[i] <= 127 THEN TextOk(enc, bytes)
         ELSE TextErr("panic", enc)

\* str::to_lowercase on ASCII text
ToLowercase(text) ==
    [i \in 1..Len(text) |->
        IF text[i] >= 65 /\ text[i] <= 90 THEN text[i] + 32 ELSE text[i]]

\* the labels "utf-8", "utf8" and "unicode-1-1-utf-8"
Utf8Labels ==
    { <<117, 116, 102, 45, 56>>, <<117, 116, 102, 56>>,
      <<117, 110, 105, 99, 111, 100, 101, 45, 49, 45, 49, 45, 117, 116, 102,
        45, 56>> }

\* encoding_from_whatwg_label, for the UTF-8 labels and for text that is no
\* label at all ("none"); other text is outside the model
EncodingFromWhatwgLabel(label) ==
    IF ToLowercase(label) \in Utf8Labels THEN "utf-8" ELSE "none"

\* the symbol names decode_string_with_instance_variables looks up
SymbolE == <<69>>

SymbolEncoding == <<101, 110, 99, 111, 100, 105, 110, 103>>

RECURSIVE DecodeString(_, _, _)
\* Root::decode_string_with_instance_variables; depth is the number of nested
\* decode_string calls the stack still has room for
DecodeStringWithInstanceVariables(root, string, instance_variables, depth) ==
    IF string.bytes = <<>> THEN TextOk("", <<>>)
    ELSE
    The({ IF e_id # -1 /\ MapHas(instance_variables, e_id)
          THEN The({ IF encoding.t # "Boolean"
                     THEN TextErr("panic", "Symbol E for string was not boolean")
                     ELSE IF encoding.v = 1
                          THEN StrictDecode("utf-8", string.bytes)
                     ELSE StrictDecode("ascii", string.bytes)
                     : encoding \in {MapGet(instance_variables, e_id)} })
          ELSE IF encoding_id # -1 /\ MapHas(instance_variables, encoding_id)
          THEN The({ IF encoding.t # "String"
                     THEN TextErr("panic",
                                  "Symbol encoding for string was not a string")
                     ELSE IF depth = 0 THEN TextErr("overflow", "")
                     ELSE
                       The({ IF encoding_string.st = "overflow"
                             THEN encoding_string
                             ELSE IF encoding_string.st # "ok"
                                  THEN \* decode_string(encoding).unwrap()
                                       TextErr("panic", "unwrap on Err")
                             ELSE IF EncodingFromWhatwgLabel(
                                         encoding_string.text) = "none"
                                  THEN TextErr("encoding",
                                               "Could not find encoding")
                             ELSE StrictDecode(
                                      EncodingFromWhatwgLabel(
                                          encoding_string.text),
                                      string.bytes)
                             : encoding_string \in
                                 {DecodeString(root,
                                               root.objects[encoding.v + 1],
                                               depth - 1)} })
                     : encoding \in {MapGet(instance_variables, encoding_id)} })
          ELSE TextErr("encoding", "binary")
          : e_id \in {GetSymbolId(root, SymbolE)},
            encoding_id \in {GetSymbolId(root, SymbolEncoding)} })

\* a decode_string that takes a string without instance variables for UTF-8
DecodeStringRaw(root, string, depth) ==
    IF string.hasIvs
    THEN DecodeStringWithInstanceVariables(root, string, string.spairs, depth)
    ELSE StrictDecode("utf-8", string.bytes)

\* Root::decode_string
DecodeString(root, string, depth) ==
    IF string.hasIvs
    THEN DecodeStringWithInstanceVariables(root, string, string.spairs, depth)
    ELSE TextErr("encoding", "binary")

----------------------------------------------------------------------------
(* Input streams: documents covering every tag, every strict prefix of a    *)
(* document, every single-byte substitution from MutBytes, and pairs of     *)
(* documents back to back.                                                  *)

Doc(body) == <<MARSHAL_MAJOR_VERSION, MARSHAL_MINOR_VERSION>> \o body

Bodies ==
    { <<48>>,                                         \* 0
      <<84>>, <<70>>,                                 \* T  F
      <<105, 0>>, <<105, 6>>, <<105, 127>>,           \* i 0, 1, 122
      <<105, 128>>, <<105, 250>>,                     \* i -123, -1
      <<105, 1, 200>>, <<105, 255, 56>>,              \* i 200, -200
      <<105, 1, 5>>,                                  \* i 5 in long form
      <<58, 6, 97>>,                                  \* :a
      <<91, 0>>,                                      \* []
      <<91, 7, 58, 6, 97, 59, 0>>,                    \* [:a, ;0]
      <<91, 7, 58, 6, 97, 58, 6, 97>>,                \* [:a, :a]
      <<91, 7, 105, 6, 105, 7>>,                      \* [1, 2]
      <<91, 6, 64, 0>>,                               \* [@0]  recursive
      <<91, 7, 58, 6, 97, 91, 7, 58, 6, 98, 59, 6>>,  \* [:a, [:b, ;1]]
      <<91, 6, 91, 7, 34, 6, 97, 64, 7>>,             \* [["a", @2]]
      <<91, 7, 34, 6, 97, 64, 6>>,                    \* ["a", @1]
      <<91, 9, 58, 6, 97, 59, 0, 34, 6, 97, 64, 6>>,  \* [:a, ;0, "a", @1]
      <<91, 7, 34, 6, 97, 73, 64, 6, 0>>,             \* ["a", I @1 {}]
      <<102, 8, 105, 110, 102>>,                      \* f inf
      <<102, 9, 45, 105, 110, 102>>,                  \* f -inf
      <<102, 8, 110, 97, 110>>,                       \* f nan
      <<102, 6, 49>>, <<102, 7, 48, 49>>,             \* f "1", f "01"
      <<91, 7, 102, 6, 49, 64, 6>>,                   \* [f 1, @1]
      <<123, 0>>,                                     \* {}
      <<123, 6, 58, 6, 97, 105, 6>>,                  \* {:a => 1}
      <<123, 7, 105, 6, 105, 6, 105, 7, 105, 7>>,     \* {1 => 1, 2 => 2}
      <<123, 7, 105, 6, 34, 6, 97, 105, 6, 34, 6, 98>>, \* {1 => "a", 1 => "b"}
      <<123, 7, 58, 6, 97, 48, 58, 6, 98, 48>>,       \* {:a => nil, :b => nil}
      <<125, 6, 58, 6, 97, 105, 6, 105, 7>>,          \* }{:a => 1} default 2
      <<99, 6, 65>>, <<109, 6, 65>>, <<77, 6, 65>>,   \* c A, m A, M A
      <<34, 6, 97>>, <<34, 0>>,                       \* "a", ""
      <<73, 34, 6, 97, 6, 58, 6, 69, 84>>,            \* I "a" {E: T}
      <<73, 34, 6, 97, 0>>,                           \* I "a" {}
      <<73, 34, 6, 97, 7, 58, 6, 69, 84, 58, 6, 98, 48>>, \* I "a" {E: T, b: nil}
      <<73, 34, 6, 97, 6, 58, 6, 97, 64, 0>>,         \* I "a" {a: @0}
      <<108, 43, 6, 1, 0>>,                           \* l + 1
      <<108, 45, 6, 1, 0>>,                           \* l - 1
      <<108, 43, 7, 0, 0, 0, 64>>,                    \* l + 2^30
      <<108, 43, 0>>,                                 \* l + (no digits)
      <<73, 47, 6, 97, 0, 6, 58, 6, 69, 70>>,         \* I /a/ {E: F}
      <<47, 6, 97, 0>>,                               \* /a/
      <<83, 58, 6, 65, 6, 58, 6, 97, 105, 6>>,        \* S :A {a: 1}
      <<83, 58, 6, 65, 7, 58, 6, 97, 48, 58, 6, 98, 48>>, \* S :A {a: nil, b: nil}
      <<111, 58, 6, 65, 0>>,                          \* o :A {}
      <<111, 58, 6, 65, 6, 58, 6, 97, 105, 6>>,       \* o :A {a: 1}
      <<111, 58, 6, 65, 6, 58, 6, 97, 64, 0>>,        \* o :A {a: @0}
      <<67, 58, 6, 65, 34, 6, 97>>,                   \* C :A "a"
      <<73, 67, 58, 6, 65, 34, 6, 97, 6, 58, 6, 69, 84>>, \* I C :A "a" {E: T}
      <<117, 58, 6, 65, 6, 49>>,                      \* u :A "1"
      <<73, 117, 58, 6, 65, 6, 49, 6, 58, 6, 69, 70>>, \* I u :A "1" {E: F}
      <<85, 58, 6, 65, 105, 6>>,                      \* U :A 1
      <<73, 105, 6, 0>>,                              \* I 1 {}
      <<73, 48, 0>>,                                  \* I nil {}
      <<73, 91, 0, 0>>,                               \* I [] {}
      <<73, 111, 58, 6, 65, 0, 0>>,                   \* I o :A {} {}
      <<100>> }                                       \* d

Seeds == {Doc(b) : b \in Bodies}

\* bytes substituted into a document: lengths 0, 1, 2, -123, the marker of a
\* negative one-byte length, tags (d, @, ;, i), version bytes, a stray 0xff
MutBytes == {0, 5, 6, 7, 9, 59, 64, 100, 105, 128, 250, 255}

Truncations(s) == {SubSeq(s, 1, n) : n \in 0..(Len(s) - 1)}

Substitutions(s) == {[s EXCEPT ![i] = b] : i \in 1..Len(s), b \in MutBytes}

\* documents that are concatenated pairwise
ConcatBodies ==
    { <<105, 6>>, <<105, 7>>, <<111, 58, 6, 65, 0>>,
      <<91, 7, 58, 6, 97, 59, 0>>, <<34, 6, 97>> }

Concats == {Doc(a) \o Doc(b) : a \in ConcatBodies, b \in ConcatBodies}

Candidates ==
    Seeds \cup Concats
      \cup UNION {Truncations(s) : s \in Seeds}
      \cup UNION {Substitutions(s) : s \in Seeds}

\* the streams whose first load stays inside the modelled float and bignum
\* domain
Inputs == {s \in Candidates : Load(s, 0).status # "unmodelled"}

----------------------------------------------------------------------------
(* The program: a reader over `source`, Loader::load called on it up to     *)
(* MaxLoads times, and one Dumper over `sink` on which dump is called up to *)
(* MaxDumps times with values of the last loaded Root.                      *)

MaxLoads == 2

MaxDumps == 2

NoLoad ==
    [status |-> "none", err |-> "", eof |-> FALSE,
     root |-> NewRoot(Nil, <<>>, <<>>), start |-> 0, end |-> 0]

NoDump ==
    [status |-> "none", err |-> "", start |-> 0, value |-> Nil,
     root |-> NewRoot(Nil, <<>>, <<>>), log |-> <<>>]

NoText == [id |-> 0, st |-> "none", enc |-> "", text |-> <<>>]

Init ==
    /\ source \in Inputs
    /\ rpos = 0
    /\ loaded = NoLoad
    /\ sink = <<>>
    /\ dsymbols = <<>>
    /\ dobjects = <<>>
    /\ lastDump = NoDump
    /\ loads = 0
    /\ dumps = 0
    /\ pc = "run"
    /\ fxN = 0
    /\ fxBytes = <<>>
    /\ fxOut = [st |-> "none", n |-> 0, pos |-> 0]
    /\ fxPc = "off"
    /\ txOut = NoText
    /\ txPc = "off"
    /\ rdIn = NewLoader(0)
    /\ rdOut = NewLoader(0)
    /\ rdPc = "off"

\* Loader::new(&mut reader).load(): the whole call, with the iteration order
\* the HashMaps of the returned Root happen to have
LoadStep ==
    /\ pc = "run"
    /\ loads < MaxLoads
    /\ loaded.status \in {"none", "ok"}
    /\ \E r \in {Load(source, rpos)} :
       /\ r.status # "unmodelled"
       /\ \E k \in 0..(IF r.status = "ok" THEN OrderChoices(r.objects) - 1 ELSE 0) :
            loaded' = [status |-> r.status, err |-> r.err, eof |-> r.eof,
                       root |-> IF r.status = "ok"
                                THEN NewRoot(r.val, r.symbols,
                                             WithIterationOrder(r.objects, k))
                                ELSE NewRoot(Nil, <<>>, <<>>),
                       start |-> rpos, end |-> r.pos]
       /\ rpos' = r.pos
       /\ pc' = IF r.status = "panic" THEN "aborted" ELSE "run"
    /\ loads' = loads + 1
    /\ UNCHANGED <<source, sink, dsymbols, dobjects, lastDump, dumps>>
    /\ UNCHANGED fxVars
    /\ UNCHANGED txVars
    /\ UNCHANGED rdVars

\* a dump call that rewinds and truncates the sink before it writes
DumpStepFromStart ==
    /\ pc = "run"
    /\ dumps < MaxDumps
    /\ loaded.status = "ok"
    /\ \E object \in GraphValues(loaded.root) :
         \E ds \in {Dump([NewDumper EXCEPT !.out = <<>>, !.symbols = dsymbols,
                                            !.objects = dobjects],
                          loaded.root, object)} :
             /\ ds.status # "unmodelled"
             /\ sink' = ds.out
             /\ dsymbols' = ds.symbols
             /\ dobjects' = ds.objects
             /\ lastDump' = [status |-> ds.status, err |-> ds.err,
                             start |-> Len(sink), value |-> object,
                             root |-> loaded.root, log |-> ds.log]
             /\ pc' = IF ds.status = "panic" THEN "aborted" ELSE "run"
    /\ dumps' = dumps + 1
    /\ UNCHANGED <<source, rpos, loaded, loads>>
    /\ UNCHANGED fxVars
    /\ UNCHANGED txVars
    /\ UNCHANGED rdVars

\* dumper.dump(&root, value) for a value of the loaded Root's graph
DumpStep ==
    /\ pc = "run"
    /\ dumps < MaxDumps
    /\ loaded.status = "ok"
    /\ \E object \in GraphValues(loaded.root) :
         \E ds \in {Dump([NewDumper EXCEPT !.out = sink, !.symbols = dsymbols,
                                            !.objects = dobjects],
                          loaded.root, object)} :
             /\ ds.status # "unmodelled"
             /\ sink' = ds.out
             /\ dsymbols' = ds.symbols
             /\ dobjects' = ds.objects
             /\ lastDump' = [status |-> ds.status, err |-> ds.err,
                             start |-> Len(sink), value |-> object,
                             root |-> loaded.root, log |-> ds.log]
             /\ pc' = IF ds.status = "panic" THEN "aborted" ELSE "run"
    /\ dumps' = dumps + 1
    /\ UNCHANGED <<source, rpos, loaded, loads>>
    /\ UNCHANGED fxVars
    /\ UNCHANGED txVars
    /\ UNCHANGED rdVars

Next == LoadStep \/ DumpStep

Spec == Init /\ [][Next]_vars

----------------------------------------------------------------------------
(* The fixnum harness: write_fixnum on an i32, then read_fixnum on the      *)
(* bytes it produced.                                                       *)

FixnumBoundary ==
    {I32Min, -1073741824, -16777216, -16777215, -33000, -200, -123, -1, 0, 1,
     122, 123, 200, 33000, 16777215, 1073741823, 1073741824, I32Max}

FixWindow == 2

\* the boundary values and the i32 values within FixWindow of one
FixnumInputs ==
    UNION {{n + d : d \in (IF n > I32Max - FixWindow
                           THEN (-FixWindow)..(I32Max - n)
                           ELSE IF n < I32Min + FixWindow
                                THEN (I32Min - n)..FixWindow
                                ELSE (-FixWindow)..FixWindow)} :
           n \in FixnumBoundary}

\* the i32 values at which the number of bytes written changes
FixnumEdges ==
    {-16777217, -16777216, -65537, -65536, -257, -256, -124, -123,
     122, 123, 255, 256, 65535, 65536, 16777215, 16777216}

FxInit ==
    /\ fxN \in FixnumInputs \cup FixnumEdges
    /\ fxBytes = <<>>
    /\ fxOut = [st |-> "none", n |-> 0, pos |-> 0]
    /\ fxPc = "init"
    /\ source = <<>>
    /\ rpos = 0
    /\ loaded = NoLoad
    /\ sink = <<>>
    /\ dsymbols = <<>>
    /\ dobjects = <<>>
    /\ lastDump = NoDump
    /\ loads = 0
    /\ dumps = 0
    /\ pc = "off"
    /\ txOut = NoText
    /\ txPc = "off"
    /\ rdIn = NewLoader(0)
    /\ rdOut = NewLoader(0)
    /\ rdPc = "off"

\* Dumper::write_fixnum(fxN)
FxWrite ==
    /\ fxPc = "init"
    /\ fxBytes' = WriteFixnum(fxN)
    /\ fxPc' = "written"
    /\ UNCHANGED <<fxN, fxOut>>
    /\ UNCHANGED mainVars
    /\ UNCHANGED txVars
    /\ UNCHANGED rdVars

\* Loader::read_fixnum on a reader over the written bytes
FxRead ==
    /\ fxPc = "written"
    /\ fxOut' = ReadFixnum(fxBytes, 0)
    /\ fxPc' = "read"
    /\ UNCHANGED <<fxN, fxBytes>>
    /\ UNCHANGED mainVars
    /\ UNCHANGED txVars
    /\ UNCHANGED rdVars

FxNext == FxWrite \/ FxRead

SpecFixnum == FxInit /\ [][FxNext]_vars

----------------------------------------------------------------------------
(* The fixnum reader on raw bytes: every non-zero first byte, followed by    *)
(* four bytes.                                                               *)

\* the bytes behind the first one
RawTails ==
    { <<0, 0, 0, 0>>, <<255, 255, 255, 255>>, <<1, 2, 3, 4>>,
      <<200, 0, 128, 127>>, <<56, 255, 0, 128>> }

RawFixnums == {<<b>> \o tail : b \in 1..255, tail \in RawTails}

FxRawInit ==
    /\ fxN = 0
    /\ fxBytes \in RawFixnums
    /\ fxOut = [st |-> "none", n |-> 0, pos |-> 0]
    /\ fxPc = "written"
    /\ source = <<>>
    /\ rpos = 0
    /\ loaded = NoLoad
    /\ sink = <<>>
    /\ dsymbols = <<>>
    /\ dobjects = <<>>
    /\ lastDump = NoDump
    /\ loads = 0
    /\ dumps = 0
    /\ pc = "off"
    /\ txOut = NoText
    /\ txPc = "off"
    /\ rdIn = NewLoader(0)
    /\ rdOut = NewLoader(0)
    /\ rdPc = "off"

FxRawNext == FxRead

SpecFixnumRaw == FxRawInit /\ [][FxRawNext]_vars

----------------------------------------------------------------------------
(* The text harness: a document holding strings is loaded, then             *)
(* Root::decode_string is called on one String object of the Root.          *)

\* the raw bytes of the strings: empty, "a", U+00E9 in UTF-8, a byte that is
\* neither ASCII nor UTF-8
TextBytes == { <<>>, <<97>>, <<195, 169>>, <<255>> }

\* the symbols :E and :encoding as written on first use
KeyE == <<58, 6>> \o SymbolE

KeyEncoding == <<58, 13>> \o SymbolEncoding

\* the strings "utf-8", "UTF-8", "nope" without their tag
LabelUtf8 == <<10, 117, 116, 102, 45, 56>>

LabelUtf8Upper == <<10, 85, 84, 70, 45, 56>>

LabelNope == <<9, 110, 111, 112, 101>>

\* instance-variable maps as they follow a string on the wire
TextIvars ==
    { <<0>>,                                              \* {}
      <<6, 58, 6, 97, 48>>,                               \* {a: nil}
      <<6>> \o KeyE \o <<84>>,                            \* {E: true}
      <<6>> \o KeyE \o <<70>>,                            \* {E: false}
      <<6>> \o KeyE \o <<48>>,                            \* {E: nil}
      <<6>> \o KeyEncoding \o <<34>> \o LabelUtf8,        \* {encoding: "utf-8"}
      <<6>> \o KeyEncoding \o <<34>> \o LabelUtf8Upper,
      <<6>> \o KeyEncoding \o <<34>> \o LabelNope,
      <<6>> \o KeyEncoding \o <<73, 34>> \o LabelUtf8 \o <<6>> \o KeyE \o <<84>>,
      <<6>> \o KeyEncoding \o <<73, 34>> \o LabelNope \o <<6>> \o KeyE \o <<84>>,
      <<6>> \o KeyEncoding \o <<48>>,                     \* {encoding: nil}
      <<6>> \o KeyEncoding \o <<64, 0>>,                  \* {encoding: @0}
      <<7>> \o KeyE \o <<84>> \o KeyEncoding \o <<34>> \o LabelUtf8,
      <<7>> \o KeyEncoding \o <<34>> \o LabelUtf8 \o KeyE \o <<70>>,
      <<7>> \o KeyEncoding \o <<34>> \o LabelNope \o KeyE \o <<84>> }

\* the symbol :E inside an array that already holds :E: as a link, and
\* written out a second time
ArrayIvars ==
    { <<6, 59, 0, 84>>, <<6, 59, 0, 70>>,
      <<6>> \o KeyE \o <<84>>, <<6>> \o KeyE \o <<70>> }

TextInputs ==
    {Doc(<<34>> \o WriteFixnum(Len(b)) \o b) : b \in TextBytes}
      \cup {Doc(<<73, 34>> \o WriteFixnum(Len(b)) \o b \o iv) :
            b \in TextBytes, iv \in TextIvars}
      \cup {Doc(<<91, 7>> \o KeyE \o <<73, 34>> \o WriteFixnum(Len(b)) \o b \o iv) :
            b \in TextBytes, iv \in ArrayIvars}

TxInit ==
    /\ source \in TextInputs
    /\ rpos = 0
    /\ loaded = NoLoad
    /\ sink = <<>>
    /\ dsymbols = <<>>
    /\ dobjects = <<>>
    /\ lastDump = NoDump
    /\ loads = 0
    /\ dumps = 0
    /\ pc = "run"
    /\ fxN = 0
    /\ fxBytes = <<>>
    /\ fxOut = [st |-> "none", n |-> 0, pos |-> 0]
    /\ fxPc = "off"
    /\ txOut = NoText
    /\ txPc = "idle"
    /\ rdIn = NewLoader(0)
    /\ rdOut = NewLoader(0)
    /\ rdPc = "off"

\* root.decode_string(string) for a String object of the loaded Root
TxDecode ==
    /\ pc = "run"
    /\ txPc = "idle"
    /\ rdIn = NewLoader(0)
    /\ rdOut = NewLoader(0)
    /\ rdPc = "off"
    /\ loaded.status = "ok"
    /\ \E id \in 0..(Len(loaded.root.objects) - 1) :
         /\ loaded.root.objects[id + 1].kind = "String"
         /\ \E r \in {DecodeString(loaded.root, loaded.root.objects[id + 1],
                                   Len(loaded.root.objects))} :
              /\ txOut' = [id |-> id, st |-> r.st, enc |-> r.enc,
                           text |-> r.text]
              /\ pc' = IF r.st \in {"panic", "overflow"} THEN "aborted"
                       ELSE "run"
    /\ txPc' = "decoded"
    /\ UNCHANGED <<source, rpos, loaded, sink, dsymbols, dobjects, lastDump,
                   loads, dumps>>
    /\ UNCHANGED fxVars
    /\ UNCHANGED rdVars

TxNext == LoadStep \/ TxDecode

SpecText == TxInit /\ [][TxNext]_vars

----------------------------------------------------------------------------
(* Helpers of the properties.                                               *)

\* RubyObject's derived PartialEq (the history field is not compared; two
\* NaN floats are taken as equal)
ObjectEq(o1, o2) ==
    /\ o1.kind = o2.kind
    /\ o1.items = o2.items
    /\ MapEq(o1.pairs, o2.pairs)
    /\ o1.dflt = o2.dflt
    /\ o1.bytes = o2.bytes
    /\ o1.name = o2.name
    /\ o1.wrapped = o2.wrapped
    /\ o1.num = o2.num
    /\ MapEq(o1.spairs, o2.spairs)
    /\ o1.hasIvs = o2.hasIvs
    /\ o1.float = o2.float
    /\ o1.big = o2.big

\* the same root value, symbol vector and object vector
RootEq(r1, r2) ==
    /\ r1.root = r2.root
    /\ r1.symbols = r2.symbols
    /\ Len(r1.objects) = Len(r2.objects)
    /\ \A i \in 1..Len(r1.objects) : ObjectEq(r1.objects[i], r2.objects[i])

\* the bytes the last load consumed
Consumed == SubSeq(source, loaded.start + 1, loaded.end)

\* the bytes the last dump call appended to the sink
Appended == SubSeq(sink, lastDump.start + 1, Len(sink))

\* the first load succeeded and its root value was dumped on a fresh sink
\* by the first dump call
FirstRootDumped ==
    /\ loads = 1
    /\ dumps = 1
    /\ loaded.status = "ok"
    /\ lastDump.value = loaded.root.root

----------------------------------------------------------------------------
(* Properties.                                                              *)

\* C1: round-trip law: when load succeeds on a stream and the root value is
\* dumped on a fresh sink, the dump succeeds and the sink holds exactly the
\* bytes the load consumed.
RoundTripLaw ==
    FirstRootDumped => lastDump.status = "ok" /\ sink = Consumed

\* C2: idempotence of decode: the output of dumping the decoded root loads
\* successfully, into a Root structurally equal to the first one.
IdempotenceOfDecode ==
    FirstRootDumped =>
        /\ lastDump.status = "ok"
        /\ \A again \in {Load(sink, 0)} :
           /\ again.status = "ok"
           /\ RootEq(NewRoot(again.val, again.symbols, again.objects),
                     loaded.root)

\* C3: fixnum boundary round-trip: for each listed n, read_fixnum on the
\* bytes of write_fixnum(n) yields n.
FixnumBoundaryRoundTrip ==
    (fxPc = "read" /\ fxN \in FixnumBoundary) =>
        fxOut.st = "ok" /\ fxOut.n = fxN /\ fxOut.pos = Len(fxBytes)

\* C4: hashes preserve wire order: the pairs a loaded Hash or HashWithDefault
\* yields to the encoder are the pairs read from the wire, in wire order.
HashesPreserveWireOrder ==
    loaded.status = "ok" =>
        \A i \in 1..Len(loaded.root.objects) :
            LET object == loaded.root.objects[i] IN
            object.kind \in {"Hash", "HashWithDefault"} =>
                object.pairs = object.wire

\* C5: encoder reset between calls: the bytes a dump call appends, and its
\* outcome, are those of a fresh Dumper for the same Root and value,
\* whatever the Dumper wrote before.
EncoderResetBetweenCalls ==
    lastDump.status # "none" =>
        \A fresh \in {Dump(NewDumper, lastDump.root, lastDump.value)} :
        /\ Appended = fresh.out
        /\ lastDump.status = fresh.status
        /\ dsymbols = fresh.symbols
        /\ dobjects = fresh.objects

\* C5 witness: a second successful dump call on the same Dumper wrote a symbol
\* and an object in full although the first call had written them too.
SecondDumpRewritesInFull ==
    /\ dumps = 2
    /\ lastDump.status = "ok"
    /\ lastDump.value = loaded.root.root
    /\ Appended = SubSeq(sink, 1, lastDump.start)
    /\ \E i \in 1..Len(dsymbols) : dsymbols[i]
    /\ \E i \in 1..Len(dobjects) : dobjects[i]

\* C6: no Empty slot survives a successful load.
NoEmptySlotSurvives ==
    loaded.status = "ok" =>
        \A i \in 1..Len(loaded.root.objects) :
            loaded.root.objects[i].kind # "Empty"

\* C6 witness: a successful load whose object table holds a composite that
\* was allocated as an Empty placeholder and referenced while still Empty.
PlaceholderBackfilled ==
    /\ loaded.status = "ok"
    /\ \E v \in GraphValues(loaded.root) :
         /\ v.t = "Uninitialized"
         /\ loaded.root.objects[v.v + 1].kind = "Array"

\* the SymbolIDs of a Root: Symbol values and names / map keys of objects
RootSymbolIds(root) ==
    {v.v : v \in {w \in GraphValues(root) : w.t = "Symbol"}}
      \cup UNION {ObjectSymbolIds(root.objects[i]) : i \in 1..Len(root.objects)}

\* the ObjectIDs of a Root's values, Uninitialized included
RootObjectIds(root) ==
    {v.v : v \in {w \in GraphValues(root) :
                    w.t \in ObjectKinds \cup {"Uninitialized"}}}

\* C7: ID validity: after a successful load every SymbolID is below the
\* length of the symbol vector and every ObjectID below the length of the
\* object vector.
IdValidity ==
    loaded.status = "ok" =>
        /\ \A id \in RootSymbolIds(loaded.root) :
               id >= 0 /\ id < Len(loaded.root.symbols)
        /\ \A id \in RootObjectIds(loaded.root) :
               id >= 0 /\ id < Len(loaded.root.objects)

\* C7 witness: a successful load of a stream with a symbol link and an
\* object link.
LinksResolved ==
    /\ loaded.status = "ok"
    /\ \E i \in 1..Len(Consumed) : Consumed[i] = 59
    /\ \E i \in 1..Len(Consumed) : Consumed[i] = 64
    /\ RootSymbolIds(loaded.root) # {}
    /\ RootObjectIds(loaded.root) # {}

\* C8: failure kinds are never mixed: a failed load returns IoError exactly
\* when a read ran out of bytes and ParserError exactly when it did not.
FailureKindsNeverMixed ==
    loaded.status \notin {"none", "ok"} =>
        \/ loaded.status = "io" /\ loaded.eof
        \/ loaded.status = "parser" /\ ~loaded.eof

\* the source with 4.8 written over the preamble the last load read
WithStandardPreamble ==
    [source EXCEPT ![loaded.start + 1] = MARSHAL_MAJOR_VERSION,
                   ![loaded.start + 2] = MARSHAL_MINOR_VERSION]

\* C9: preamble check: fewer than two bytes give IoError; otherwise the
\* version ParserError is returned exactly when the first byte is above 4 or
\* the second above 8, and every other pair decodes the value just as the
\* pair 4, 8 does.
PreambleCheck ==
    loaded.status # "none" =>
        IF Len(source) - loaded.start < 2
        THEN loaded.status = "io" /\ loaded.err = "Marshal version"
        ELSE \A major \in {source[loaded.start + 1]},
                minor \in {source[loaded.start + 2]},
                std \in {Load(WithStandardPreamble, loaded.start)} :
                 /\ (loaded.status = "parser"
                       /\ loaded.err = "Unsupported Marshal version")
                      <=> (major > 4 \/ minor > 8)
                 /\ (major <= 4 /\ minor <= 8) =>
                      /\ loaded.status = std.status
                      /\ loaded.err = std.err
                      /\ loaded.end = std.pos
                      /\ loaded.status = "ok" =>
                           RootEq(loaded.root,
                                  NewRoot(std.val, std.symbols, std.objects))

\* C9 witness: a load that succeeded behind a preamble other than 4, 8.
OlderVersionAccepted ==
    /\ loaded.status = "ok"
    /\ loaded.end > loaded.start + 2
    /\ <<source[loaded.start + 1], source[loaded.start + 2]>> # <<4, 8>>

\* the tag byte behind an `I` that opens the document
WrappedTag == source[4]

\* the tags of the kinds that take instance variables from an `I` wrapper
\* ('"', '/', 'C', 'u') and those of kinds that do not
IvarTags == {34, 47, 67, 117}

NoIvarTags == {48, 84, 70, 105, 58, 91, 102, 123, 125, 99, 109, 77, 108, 83,
               85, 111}

\* C10: instance-variable placement: a stream with `I` around a kind that
\* supports instance variables re-encodes to the same bytes; around a kind
\* that does not, decoding fails with ParserError.
InstanceVariablePlacement ==
    (loads = 1 /\ Len(source) >= 4 /\ source[3] = 73) =>
        /\ (WrappedTag \in IvarTags /\ FirstRootDumped
              /\ loaded.end = Len(source)) =>
               lastDump.status = "ok" /\ sink = source
        /\ (WrappedTag \in NoIvarTags /\ loaded.status # "io") =>
               loaded.status = "parser"

\* the values a walk from the values in S visits: S and, through the object
\* of every reference in it, the values stored below
RECURSIVE ValuesBelow(_, _)
ValuesBelow(root, S) ==
    LET next == S \cup UNION {ObjectValues(root.objects[x.v + 1]) :
                              x \in {y \in S : y.t \in ObjectKinds}}
    IN  IF next = S THEN S ELSE ValuesBelow(root, next)

\* the target of the last dump call has an Uninitialized value in its graph
TargetHoldsUninitialized ==
    /\ lastDump.status # "none"
    /\ \E x \in ValuesBelow(lastDump.root, {lastDump.value}) :
           x.t = "Uninitialized"

\* C11: a dump whose traversal reaches a RubyValue::Uninitialized returns
\* Err(DumpError::EncoderError) to the caller; it does not abort.
UninitializedReportedAsError ==
    TargetHoldsUninitialized => lastDump.status = "encoder"

\* C12: recursive graphs are emitted as back-references: an Uninitialized(k)
\* of a decoded Root stands inside the graph of object k itself, and dumping
\* the root of such a Root succeeds and gives back the bytes that were read.
RecursiveGraphsAsBackReferences ==
    (loaded.status = "ok"
       /\ \E x \in GraphValues(loaded.root) : x.t = "Uninitialized") =>
        /\ \A x \in {y \in GraphValues(loaded.root) : y.t = "Uninitialized"} :
               /\ x.v < Len(loaded.root.objects)
               /\ x \in ValuesBelow(loaded.root,
                                    ObjectValues(loaded.root.objects[x.v + 1]))
        /\ FirstRootDumped => lastDump.status = "ok" /\ sink = Consumed

\* the tags whose reader starts with read_byte_sequence: symbol, string,
\* float, class, module, class-or-module, regexp
ByteSequenceTags == {58, 34, 102, 99, 109, 77, 47}

\* the first load met a byte sequence right behind the tag, or behind the
\* one-letter class name symbol of a user-defined object
FirstIsByteSequence ==
    /\ loads = 1
    /\ Len(source) >= 3
    /\ VersionSupported(source[1], source[2])
    /\ \/ source[3] \in ByteSequenceTags
       \/ /\ Len(source) >= 6
          /\ source[3] = 117 /\ source[4] = 58 /\ source[5] = 6
          /\ source[6] < 128

\* where the reader stands when that read_byte_sequence is called
ByteSequencePos == IF source[3] \in ByteSequenceTags THEN 3 ELSE 6

\* C13: length-prefixed byte sequences fail cleanly: a negative length ends
\* the load with ParserError, a length beyond the bytes that remain ends it
\* with IoError, for every tag that reads a byte sequence.
ByteSequencesFailCleanly ==
    FirstIsByteSequence =>
        \A f \in {ReadFixnum(source, ByteSequencePos)} :
            f.st = "ok" =>
                /\ f.n < 0 => loaded.status = "parser"
                /\ f.n > Len(source) - f.pos => loaded.status = "io"

\* decode_string has returned and the Root it was called on is still loaded
TextDecoded == txPc = "decoded" /\ loaded.status = "ok"

\* the String object the text harness decoded
Decoded == loaded.root.objects[txOut.id + 1]

\* its instance-variable map binds a symbol with that name
HasBinding(name) ==
    /\ Decoded.hasIvs
    /\ \E i \in 1..Len(Decoded.spairs) :
           loaded.root.symbols[Decoded.spairs[i].k + 1] = name

\* its instance-variable map binds a symbol with that name to that value
Binds(name, value) ==
    /\ Decoded.hasIvs
    /\ \E i \in 1..Len(Decoded.spairs) :
           /\ loaded.root.symbols[Decoded.spairs[i].k + 1] = name
           /\ Decoded.spairs[i].v = value

\* C14: text adapter, E convention: a string whose map binds a symbol named E
\* to true decodes as UTF-8, to false as US-ASCII, whether or not the map
\* also has an `encoding` binding.
TextEConvention ==
    TextDecoded =>
        /\ (Binds(SymbolE, Boolean(TRUE)) /\ Utf8Valid(Decoded.bytes)) =>
               /\ txOut.st = "ok"
               /\ txOut.text = Utf8Decode(Decoded.bytes)
               /\ Decoded.bytes # <<>> => txOut.enc = "utf-8"
        /\ (Binds(SymbolE, Boolean(FALSE))
              /\ \A i \in 1..Len(Decoded.bytes) : Decoded.bytes[i] <= 127) =>
               /\ txOut.st = "ok"
               /\ txOut.text = Decoded.bytes
               /\ Decoded.bytes # <<>> => txOut.enc = "ascii"

\* the map of the decoded string binds a symbol named `encoding` to a plain
\* String (no instance variables of its own) whose bytes are a WHATWG label
BindsPlainLabel ==
    /\ Decoded.hasIvs
    /\ \E i \in 1..Len(Decoded.spairs) :
           /\ loaded.root.symbols[Decoded.spairs[i].k + 1] = SymbolEncoding
           /\ Decoded.spairs[i].v.t = "String"
           /\ ~loaded.root.objects[Decoded.spairs[i].v.v + 1].hasIvs
           /\ EncodingFromWhatwgLabel(
                  loaded.root.objects[Decoded.spairs[i].v.v + 1].bytes) # "none"

\* C15: text adapter, encoding label: a string without an E binding whose map
\* binds `encoding` to a plain String spelling a WHATWG label decodes with
\* that encoding (the labels of the model all name UTF-8).
TextEncodingLabel ==
    (TextDecoded /\ ~HasBinding(SymbolE) /\ BindsPlainLabel
       /\ Utf8Valid(Decoded.bytes)) =>
        /\ txOut.st = "ok"
        /\ txOut.text = Utf8Decode(Decoded.bytes)

\* the decoded string has neither an E nor an `encoding` binding
IsBinary == ~HasBinding(SymbolE) /\ ~HasBinding(SymbolEncoding)

\* C16 as stated: text adapter, binary strings: every string, empty or not,
\* with no map or with a map that has neither key, fails with EncodingError.
TextBinaryStrings ==
    (TextDecoded /\ IsBinary) => txOut.st = "encoding"

\* C16 as amended: such a string fails with EncodingError when it has no map
\* or is not empty; an empty string with a map decodes to the empty text.
TextBinaryStringsUnlessEmpty ==
    (TextDecoded /\ IsBinary) =>
        IF Decoded.hasIvs /\ Decoded.bytes = <<>>
        THEN txOut.st = "ok" /\ txOut.text = <<>>
        ELSE txOut.st = "encoding"

\* a non-empty string whose map has entries, but neither key, was refused
BinaryStringRefused ==
    /\ TextDecoded
    /\ IsBinary
    /\ txOut.st = "encoding"
    /\ Decoded.bytes # <<>>
    /\ Decoded.hasIvs
    /\ Len(Decoded.spairs) > 0

SecondDumpOnUsedSink ==
    dumps = 2 /\ lastDump.status = "ok" /\ lastDump.start > 0

\* C18 as stated: sink position after an earlier call: a successful dump on a
\* Dumper whose sink already holds bytes overwrites the sink from position 0,
\* so the sink then holds only that call's document.
SinkOverwrittenFromStart ==
    SecondDumpOnUsedSink =>
        \A fresh \in {Dump(NewDumper, lastDump.root, lastDump.value)} :
            sink = fresh.out

\* C18 as amended: a dump call never touches the bytes the sink already
\* holds: it appends, and after a successful call the sink holds the earlier
\* bytes followed by that call's document.
SinkAppendedTo ==
    [][dumps' # dumps =>
         /\ Len(sink') >= Len(sink)
         /\ SubSeq(sink', 1, Len(sink)) = sink
         /\ lastDump'.status = "ok" =>
                \A fresh \in {Dump(NewDumper, lastDump'.root, lastDump'.value)} :
                    sink' = sink \o fresh.out]_vars

\* the sink holds two documents, the second one behind the first
SecondDocumentBehindFirst ==
    /\ SecondDumpOnUsedSink
    /\ Len(sink) > lastDump.start + 2
    /\ SubSeq(sink, 1, 2) = <<MARSHAL_MAJOR_VERSION, MARSHAL_MINOR_VERSION>>
    /\ SubSeq(sink, lastDump.start + 1, lastDump.start + 2)
         = <<MARSHAL_MAJOR_VERSION, MARSHAL_MINOR_VERSION>>

RECURSIVE Resolve(_, _, _)
\* what a RubyValue of a Root stands for once every SymbolID is replaced by
\* the symbol's name and every ObjectID by the object it names (maps as sets
\* of pairs; an Uninitialized value stays as it is)
Resolve(symbols, objects, value) ==
    IF value.t = "Symbol" THEN [t |-> "Symbol", sym |-> symbols[value.v + 1]]
    ELSE IF value.t \notin ObjectKinds THEN value
    ELSE [t       |-> value.t,
          kind    |-> objects[value.v + 1].kind,
          items   |-> [i \in 1..Len(objects[value.v + 1].items) |->
                         Resolve(symbols, objects,
                                 objects[value.v + 1].items[i])],
          pairs   |-> {<<Resolve(symbols, objects, p.k),
                         Resolve(symbols, objects, p.v)>> :
                       p \in SeqRange(objects[value.v + 1].pairs)},
          dflt    |-> Resolve(symbols, objects, objects[value.v + 1].dflt),
          bytes   |-> objects[value.v + 1].bytes,
          name    |-> IF objects[value.v + 1].kind \in
                           {"Struct", "Object", "UserClass", "UserDefined",
                            "UserMarshal"}
                      THEN symbols[objects[value.v + 1].name + 1] ELSE <<>>,
          wrapped |-> Resolve(symbols, objects, objects[value.v + 1].wrapped),
          num     |-> objects[value.v + 1].num,
          spairs  |-> {<<symbols[p.k + 1], Resolve(symbols, objects, p.v)>> :
                       p \in SeqRange(objects[value.v + 1].spairs)},
          hasIvs  |-> objects[value.v + 1].hasIvs,
          float   |-> objects[value.v + 1].float,
          big     |-> objects[value.v + 1].big]

\* C19: any Value of the graph is a valid dump target: the stream a
\* successful dump(root, v) appends is accepted by the decoder, to its last
\* byte, and decodes to a value in which every symbol and object link stands
\* for the same symbol name and the same object as in v's graph.
AnyValueIsDumpTarget ==
    lastDump.status = "ok" =>
        \A again \in {Load(Appended, 0)} :
            /\ again.status = "ok"
            /\ again.pos = Len(Appended)
            /\ Resolve(again.symbols, again.objects, again.val)
                 = Resolve(lastDump.root.symbols, lastDump.root.objects,
                           lastDump.value)

\* the first byte of the fixnum the harness read, as a signed value
FirstSigned == ToI8(fxBytes[1])

\* the i32 made of the n bytes behind the first one, little-endian, the
\* missing high bytes filled with pad
PaddedLe(n, pad) ==
    LeToI32(IF n >= 1 THEN fxBytes[2] ELSE pad, IF n >= 2 THEN fxBytes[3] ELSE pad,
            IF n >= 3 THEN fxBytes[4] ELSE pad, IF n >= 4 THEN fxBytes[5] ELSE pad)

\* C20: fixnum reading rule: a non-zero first byte s > 4 reads as s - 5 and
\* s < -4 as s + 5; for |s| in 1..4 exactly |s| bytes follow, little-endian,
\* the high bytes padded with 0x00 for s > 0 and with 0xFF for s < 0.
FixnumReadingRule ==
    (fxPc = "read" /\ Len(fxBytes) >= 5 /\ fxBytes[1] # 0) =>
        /\ fxOut.st = "ok"
        /\ FirstSigned > 4 => fxOut.n = FirstSigned - 5 /\ fxOut.pos = 1
        /\ FirstSigned < -4 => fxOut.n = FirstSigned + 5 /\ fxOut.pos = 1
        /\ FirstSigned \in 1..4 =>
               fxOut.n = PaddedLe(FirstSigned, 0) /\ fxOut.pos = 1 + FirstSigned
        /\ FirstSigned \in (-4)..(-1) =>
               /\ fxOut.n = PaddedLe(-FirstSigned, 255)
               /\ fxOut.pos = 1 - FirstSigned

\* 256^k for k in 0..3
Pow256(k) == IF k = 0 THEN 1 ELSE IF k = 1 THEN 256
             ELSE IF k = 2 THEN 65536 ELSE 16777216

\* the bytes of the i32 n above the c-th are all zero (n > 0) or all ones
\* (n < 0)
FitsIn(n, c) ==
    c = 4 \/ (IF n > 0 THEN n < Pow256(c) ELSE n >= -Pow256(c))

\* the least such c in 1..4
MinimalCount(n) ==
    CHOOSE c \in 1..4 : FitsIn(n, c) /\ \A d \in 1..(c - 1) : ~FitsIn(n, d)

\* byte i (from 1) of the two's complement of n, little-endian
LeByte(n, i) == (n \div Pow256(i - 1)) % 256

\* C21: fixnum writing rule: write_fixnum emits 0x00 for 0, the byte n + 5
\* for 1..122, the byte n - 5 for -123..-1, and otherwise the marker c or -c
\* followed by the c low bytes of n, c the minimal count; c + 1 bytes in all.
FixnumWritingRule ==
    fxPc \in {"written", "read"} =>
        IF fxN = 0 THEN fxBytes = <<0>>
        ELSE IF fxN >= 1 /\ fxN <= 122 THEN fxBytes = <<fxN + 5>>
        ELSE IF fxN >= -123 /\ fxN <= -1 THEN fxBytes = <<256 + fxN - 5>>
        ELSE /\ Len(fxBytes) = MinimalCount(fxN) + 1
             /\ fxBytes[1] = (IF fxN > 0 THEN MinimalCount(fxN)
                              ELSE 256 - MinimalCount(fxN))
             /\ \A i \in 1..MinimalCount(fxN) : fxBytes[i + 1] = LeByte(fxN, i)

\* a negative number was written in two bytes behind the marker -2, and a
\* positive one in three behind the marker 3
LongFormWritten ==
    /\ fxPc = "written"
    /\ \/ fxN < -256 /\ Len(fxBytes) = 3 /\ fxBytes[1] = 254
       \/ fxN > 65535 /\ Len(fxBytes) = 4 /\ fxBytes[1] = 3

----------------------------------------------------------------------------
(* Reader harness: one Loader::read_value call made on a Loader that is in  *)
(* the middle of a load, with symbols and objects already in its vectors.   *)

\* one object of every RubyObject variant
RdSamples ==
    { Empty, ArrayObj(<<>>), HashObj(<<>>), HashWithDefaultObj(<<>>, Nil),
      FloatObj([cls |-> "num", n |-> 1]),
      BigNumObj(<<1, 0, 0, 0, 0, 0, 0, 0>>),
      NameObj("Class", <<65>>), NameObj("Module", <<65>>),
      NameObj("ClassOrModule", <<65>>), StringObj(<<97>>),
      RegExpObj(<<97>>, 0), StructObj(0, <<>>), ObjectObj(0, <<>>),
      UserClassObj(0, Nil), UserDefinedObj(0, <<49>>), UserMarshalObj(0, Nil) }

\* object vectors of a Loader under way: a slot still Empty is that of a
\* composite whose children are being read
RdObjects ==
    {<<>>} \cup {<<o>> : o \in RdSamples}
           \cup {<<o, p>> : o \in {Empty, ArrayObj(<<>>)}, p \in RdSamples}

\* symbol vectors of a Loader under way
RdSymbols == {<<>>, <<(<<97>>)>>, <<(<<97>>), (<<98>>)>>}

\* the indices written behind a link tag
RdIndices == {-200, -123, -2, -1, 0, 1, 2, 3, 200}

\* '@' k and ';' k, and the same cut short
RdLinks ==
    UNION {{<<tag>> \o WriteFixnum(k), <<tag>>} : tag \in {64, 59},
                                                   k \in RdIndices}

\* ':' with the names a, b and the empty name, with a name that is not
\* UTF-8, and with a name cut short
RdSymbolStreams ==
    { <<58, 6, 97>>, <<58, 6, 98>>, <<58, 0>>, <<58, 6, 255>>, <<58, 7, 97>>,
      <<58>> }

\* little-endian magnitudes of 0, 1, 2 and 4 16-bit units; the eight-byte
\* ones are that of test_read_bignum, 2^62 and 2^63 - 1
RdMagnitudes ==
    { <<>>, <<1, 0>>, <<0, 1>>, <<255, 255>>, <<0, 0, 0, 64>>,
      <<185, 163, 56, 151, 34, 38, 54, 0>>, <<0, 0, 0, 0, 0, 0, 0, 64>>,
      <<255, 255, 255, 255, 255, 255, 255, 127>> }

\* 'l', a sign byte ('+', '-' or '*'), the length and the magnitude: whole,
\* followed by one more byte, cut short by one byte, with the length -123,
\* and cut behind the sign
RdBignums ==
    UNION {{ <<108, sign>> \o WriteFixnum(Len(m) \div 2) \o m,
             <<108, sign>> \o WriteFixnum(Len(m) \div 2) \o m \o <<48>>,
             <<108, sign>> \o WriteFixnum(Len(m) \div 2 + 1) \o m \o <<0>>,
             <<108, sign, 128>> \o m,
             <<108, sign>> }
           : sign \in {43, 45, 42}, m \in RdMagnitudes}

\* one stream for every object kind; the composite ones hold a new object
\* and a link '@' k among their children
RdObjectStreams ==
    { <<34, 6, 97>>, <<102, 6, 49>>, <<99, 6, 65>>, <<109, 6, 65>>,
      <<77, 6, 65>>, <<47, 6, 97, 0>>, <<117, 58, 6, 65, 6, 49>> }
    \cup UNION {{ <<91, 7, 34, 6, 97, 64, k + 5>>,       \* ["a", @k]
                  <<91, 7, 64, k + 5, 34, 6, 97>>,       \* [@k, "a"]
                  <<91, 6, 91, 7, 34, 6, 97, 64, k + 5>>, \* [["a", @k]]
                  <<123, 6, 34, 6, 97, 64, k + 5>>,      \* {"a" => @k}
                  <<125, 6, 34, 6, 97, 48, 64, k + 5>>,  \* }{"a" => nil} @k
                  <<83, 58, 6, 65, 6, 58, 6, 97, 64, k + 5>>,  \* S :A {a: @k}
                  <<111, 58, 6, 65, 6, 58, 6, 97, 64, k + 5>>, \* o :A {a: @k}
                  <<67, 58, 6, 65, 91, 6, 64, k + 5>>,   \* C :A [@k]
                  <<85, 58, 6, 65, 91, 6, 64, k + 5>>,   \* U :A [@k]
                  <<73, 34, 6, 97, 6, 58, 6, 97, 64, k + 5>> } \* I "a" {a: @k}
                : k \in 0..3}

RdStreams == RdLinks \cup RdSymbolStreams \cup RdBignums \cup RdObjectStreams

RdInit ==
    /\ source \in RdStreams
    /\ rdIn \in {[NewLoader(0) EXCEPT !.symbols = sy, !.objects = ob]
                 : sy \in RdSymbols, ob \in RdObjects}
    /\ rdOut = NewLoader(0)
    /\ rdPc = "ready"
    /\ rpos = 0
    /\ loaded = NoLoad
    /\ sink = <<>>
    /\ dsymbols = <<>>
    /\ dobjects = <<>>
    /\ lastDump = NoDump
    /\ loads = 0
    /\ dumps = 0
    /\ pc = "off"
    /\ fxN = 0
    /\ fxBytes = <<>>
    /\ fxOut = [st |-> "none", n |-> 0, pos |-> 0]
    /\ fxPc = "off"
    /\ txOut = NoText
    /\ txPc = "off"

\* self.read_value() on the Loader rdIn
RdRead ==
    /\ rdPc = "ready"
    /\ ReadValue(source, rdIn).status # "unmodelled"
    /\ rdOut' = ReadValue(source, rdIn)
    /\ rdPc' = "done"
    /\ UNCHANGED rdIn
    /\ UNCHANGED mainVars
    /\ UNCHANGED fxVars
    /\ UNCHANGED txVars

RdNext == RdRead

SpecRead == RdInit /\ [][RdNext]_vars

\* the tag byte read_value consumed, and the fixnum behind it
RdTag == source[1]

RdFixnum == ReadFixnum(source, 1)

DumpLog == lastDump.log

\* C24: back-reference bookkeeping in the encoder: within one dump call each
\* symbol ID and each object ID is written in full at most once, a full form
\* sets the ID's flag, and every link ';k' or '@k' comes after the start of
\* the full form of the same ID.
BackReferenceBookkeeping ==
    lastDump.status # "none" =>
        /\ \A i \in 1..Len(DumpLog) : \A j \in 1..Len(DumpLog) :
              (/\ DumpLog[i].form = "full"
               /\ DumpLog[j].form = "full"
               /\ DumpLog[i].table = DumpLog[j].table
               /\ DumpLog[i].id = DumpLog[j].id) => i = j
        /\ \A j \in 1..Len(DumpLog) :
              DumpLog[j].form = "link" =>
                  \E i \in 1..(j - 1) :
                      /\ DumpLog[i].form = "full"
                      /\ DumpLog[i].table = DumpLog[j].table
                      /\ DumpLog[i].id = DumpLog[j].id
        /\ \A i \in 1..Len(DumpLog) :
              DumpLog[i].form = "full" =>
                  IF DumpLog[i].table = "symbol"
                  THEN dsymbols[DumpLog[i].id + 1]
                  ELSE dobjects[DumpLog[i].id + 1]

\* C24 witness: a dump that wrote a symbol and an object in full and then a
\* link to each
BothLinksWritten ==
    /\ lastDump.status = "ok"
    /\ \A table \in {"symbol", "object"} :
          \E i \in 1..Len(DumpLog) : \E j \in (i + 1)..Len(DumpLog) :
              /\ DumpLog[i] = [form |-> "full", table |-> table,
                               id |-> DumpLog[j].id]
              /\ DumpLog[j].form = "link"
              /\ DumpLog[j].table = table

\* the BigNum the last dump call was given
DumpedBigNum == lastDump.root.objects[lastDump.value.v + 1].big

\* the number of 16-bit units left when the zero bytes at the high end of a
\* little-endian magnitude are dropped
BigNumUnits(mag) ==
    CHOOSE h \in 0..4 :
        /\ \A i \in (2 * h + 1)..8 : mag[i] = 0
        /\ \A g \in 0..(h - 1) : \E i \in (2 * g + 1)..8 : mag[i] # 0

\* C25: BigNum emission: the encoder writes 'l', the sign, the number h of
\* 16-bit units as a fixnum and the 2*h low bytes of |v|, little-endian, the
\* zero bytes at the high end being the only ones left out, so that decoding
\* the output gives v again, for v = 0 as well.
BigNumEmission ==
    (lastDump.status # "none" /\ lastDump.value.t = "BigNum") =>
        /\ lastDump.status = "ok"
        /\ \A mag \in {Abs64(DumpedBigNum)} : \A h \in {BigNumUnits(mag)} :
              Appended = <<MARSHAL_MAJOR_VERSION, MARSHAL_MINOR_VERSION, 108,
                           IF IsPositive64(DumpedBigNum) THEN 43 ELSE 45>>
                         \o WriteFixnum(h) \o SubSeq(mag, 1, 2 * h)
        /\ \A r \in {Load(Appended, 0)} :
              /\ r.status = "ok"
              /\ r.val.t = "BigNum"
              /\ r.objects[r.val.v + 1].big = DumpedBigNum

RECURSIVE Sum64Loop(_, _, _, _)
\* byte-wise sum of two little-endian 64-bit patterns, carry c into byte i
Sum64Loop(a, b, i, c) ==
    IF i > 8 THEN <<>>
    ELSE <<(a[i] + b[i] + c) % 256>>
         \o Sum64Loop(a, b, i + 1, (a[i] + b[i] + c) \div 256)

\* the 64-bit pattern of a little-endian magnitude of at most 8 bytes
Magnitude64(bytes) == [i \in 1..8 |-> IF i <= Len(bytes) THEN bytes[i] ELSE 0]

\* the sign byte behind 'l'
RdSign == source[2]

SymbolTableUniqueness ==
    loaded.status = "ok" =>
        /\ \A i \in 1..Len(loaded.root.symbols) :
              \A j \in 1..Len(loaded.root.symbols) :
                 loaded.root.symbols[i] = loaded.root.symbols[j] => i = j
        /\ \A id \in 0..(Len(loaded.root.symbols) - 1) :
              GetSymbolId(loaded.root, loaded.root.symbols[id + 1]) = id

\* the tags that begin an object, and those of the composite kinds
RdObjectTags == {34, 47, 67, 77, 83, 85, 91, 99, 102, 108, 109, 111, 117, 123,
                 125}

RdCompositeTags == {67, 83, 85, 91, 111, 117, 123, 125}

\* the tag of the object the call read: behind an `I` it is the next byte
RdObjectTag == IF RdTag = 73 THEN source[2] ELSE RdTag

\* the values stored in the objects the call appended
RdNewValues ==
    UNION {ObjectValues(rdOut.objects[j]) :
           j \in (Len(rdIn.objects) + 1)..Len(rdOut.objects)}

HoldsSymbolKeyedPairs(object) ==
    object.kind \in {"Struct", "Object"} \/ object.hasIvs

\* C29: symbol-keyed pairs keep wire order: the members of a Struct and the
\* instance variables of an Object and of an 'I' wrapper, read from N pairs
\* with distinct keys, are stored as those N pairs in the order read, which
\* is the order in which the encoder emits them.
SymbolKeyedPairsKeepWireOrder ==
    loaded.status = "ok" =>
        \A i \in 1..Len(loaded.root.objects) :
            \A object \in {loaded.root.objects[i]} :
                (/\ HoldsSymbolKeyedPairs(object)
                 /\ \A a \in 1..Len(object.wire) : \A b \in 1..Len(object.wire) :
                       object.wire[a].k = object.wire[b].k => a = b) =>
                    object.spairs = object.wire

\* the objects the last dump call could reach from the value it was given
DumpReachable ==
    {x \in ValuesBelow(lastDump.root, {lastDump.value}) : x.t \in ObjectKinds}

\* C30: encoder termination on shared and cyclic graphs: for a Root whose IDs
\* are in range and that holds no Uninitialized value, dump returns and has
\* written every reachable object in full exactly once, also when an object
\* is reachable from itself.
EncoderTermination ==
    (lastDump.status # "none" /\ ~TargetHoldsUninitialized) =>
        /\ lastDump.status = "ok"
        /\ \A x \in DumpReachable :
              Cardinality({i \in 1..Len(DumpLog) :
                             DumpLog[i] = [form |-> "full", table |-> "object",
                                           id |-> x.v]}) = 1

====
